---- MODULE Spec2Model ----
(***************************************************************************)
(* A model of the concept / relationship graph service: the Neo4j store    *)
(* as the handlers see it (nodes, relationships, installed existence       *)
(* constraints), the Kantian validator, and the request handlers of        *)
(* src/api/v1/endpoints.  Every tx.run of a handler is one committed       *)
(* statement: get_db yields a session, so each statement auto-commits and  *)
(* nothing is rolled back when the handler later raises.                   *)
(***************************************************************************)
EXTENDS Integers, Sequences, FiniteSets, TLC

\* ------------------------------------------------------------------ bounds
MaxNodes == 2       \* node element ids are 1..MaxNodes
MaxRels == 1        \* relationship element ids are 1..MaxRels
MaxClock == 1       \* datetime() takes the values 0..MaxClock
MaxPath == 5        \* a flat path sequence has at most MaxPath elements
MaxChain == 2       \* a traversed store holds at most MaxChain relationships
MaxListed == 2      \* a listed store holds at most MaxListed relationships made by calls
MaxCategoryNodes == 3   \* Category and Subcategory nodes of a store
MaxSpatial == 2     \* relationships of a store the spatial query runs on
MaxRuns == 2        \* the loader seeds the sample data at most MaxRuns times into a store
MaxCallers == 2     \* get_db runs for at most MaxCallers requests at a time
MaxDrivers == 2     \* at most MaxDrivers driver objects are ever created

\* ------------------------------------------------------------ property maps
\* Python None / Cypher null.  A stored property is never null: setting a
\* property to null removes it.
NULL == "<null>"

EmptyMap == [k \in {} |-> NULL]

\* dict.get(key): the value, or None when the key is absent.
Get(m, k) == IF k \in DOMAIN m THEN m[k] ELSE NULL

\* {k: v for k, v in m.items() if v is not None}
DropNull(m) == [k \in {x \in DOMAIN m : m[x] # NULL} |-> m[k]]

\* Cypher "SET n += delta" and "SET r.k = $k": delta overrides, null removes.
SetProps(base, delta) ==
    DropNull([k \in DOMAIN base \cup DOMAIN delta |->
                 IF k \in DOMAIN delta THEN delta[k] ELSE base[k]])

\* m with key k bound to v
With(m, k, v) == [x \in DOMAIN m \cup {k} |-> IF x = k THEN v ELSE m[x]]

\* datetime() / datetime.now().isoformat() at clock value t
Stamp(t) == ToString(t)

\* ---------------------------------------------------------------- validator
ALLOWED_QUALITIES == {"Reality", "Negation", "Limitation"}

ALLOWED_MODALITIES ==
    {"Possibility/Impossibility", "Existence/Non-existence", "Necessity/Contingency"}

ALLOWED_SPATIAL_UNITS ==
    {"meters", "kilometers", "miles", "feet", "inches", "centimeters", "millimeters"}

ALLOWED_SPATIAL_RELATION_TYPES ==
    {"near", "far", "contains", "within", "overlaps", "intersects", "disjoint",
     "above", "below", "left", "right", "front", "back"}

\* The validator's outcome: the field of the KantianValidationError it raises,
\* or Accept when it returns.
Accept == "<accept>"

\* The C5 mutant: any quality passes.
C5_AnyQuality(value) == Accept

validate_quality(value) ==
    IF value = NULL THEN Accept
    ELSE IF value \notin ALLOWED_QUALITIES THEN "quality" ELSE Accept

\* The C16 mutant: any modality passes.
C16_AnyModality(value) == Accept

validate_modality(value) ==
    IF value = NULL THEN Accept
    ELSE IF value \notin ALLOWED_MODALITIES THEN "modality" ELSE Accept

validate_concept(concept_data) ==
    IF validate_quality(Get(concept_data, "quality")) # Accept
    THEN validate_quality(Get(concept_data, "quality"))
    ELSE validate_modality(Get(concept_data, "modality"))

\* The C17 mutant: spatial_unit is never looked at.
C17_UnitUnchecked(rel_type, properties) ==
    IF /\ rel_type = "SPATIALLY_RELATES_TO"
       /\ "relation_type" \in DOMAIN properties
       /\ properties["relation_type"] \notin ALLOWED_SPATIAL_RELATION_TYPES
    THEN "relation_type"
    ELSE Accept

\* The C19 mutant: the distance rule applies to every relationship type.
C19_DistanceRuleForAll(rel_type, properties) ==
    IF "distance" \in DOMAIN properties /\ "spatial_unit" \notin DOMAIN properties
    THEN "spatial_unit"
    ELSE Accept

validate_relationship(rel_type, properties) ==
    IF rel_type = "SPATIALLY_RELATES_TO"
    THEN IF "distance" \in DOMAIN properties /\ "spatial_unit" \notin DOMAIN properties
         THEN "spatial_unit"
         ELSE IF "spatial_unit" \in DOMAIN properties
                 /\ properties["spatial_unit"] \notin ALLOWED_SPATIAL_UNITS
         THEN "spatial_unit"
         ELSE IF "relation_type" \in DOMAIN properties
                 /\ properties["relation_type"] \notin ALLOWED_SPATIAL_RELATION_TYPES
         THEN "relation_type"
         ELSE Accept
    ELSE Accept

\* ------------------------------------------------------- validator arguments
\* A field the caller did not set: model_dump(exclude_unset=True) leaves it out.
Unset == "<unset>"

DropUnset(m) == [k \in {x \in DOMAIN m : m[x] # Unset} |-> m[k]]

\* The dicts validate_concept is called with: name, quality and modality each
\* unset, null (quality, modality) or a value, allowed or not.
ConceptDataInputs ==
    {DropUnset([name |-> name, quality |-> quality, modality |-> modality]) :
        name \in {Unset, "Heat"},
        quality \in {Unset, NULL, "Hot", "reality"} \cup ALLOWED_QUALITIES,
        modality \in {Unset, NULL, "Maybe"} \cup ALLOWED_MODALITIES}

\* The relationship types and property dicts validate_relationship is called
\* with.
ValidatedRelTypes ==
    {"SPATIALLY_RELATES_TO", "CAUSES", "PRECEDES", "spatially_relates_to"}

RelPropertiesInputs ==
    {DropUnset([distance |-> distance, spatial_unit |-> spatial_unit,
                relation_type |-> relation_type, confidence_score |-> confidence_score]) :
        distance \in {Unset, NULL, "10"},
        spatial_unit \in {Unset, NULL, "furlongs", "meters", "miles"},
        relation_type \in {Unset, NULL, "nearby", "near", "within"},
        confidence_score \in {Unset, "0.8"}}

NoSubject == [fn |-> "none", rel_type |-> "", data |-> EmptyMap]

NotValidated == "<not validated>"

ValidatorSubjects ==
    {[fn |-> "validate_concept", rel_type |-> "", data |-> concept_data] :
        concept_data \in ConceptDataInputs}
    \cup {[fn |-> "validate_relationship", rel_type |-> rel_type, data |-> properties] :
            rel_type \in ValidatedRelTypes, properties \in RelPropertiesInputs}

\* -------------------------------------------------------------------- state
VARIABLES
    nodes,        \* element id -> [label, props] of every stored node
    rels,         \* element id -> [source, target, type, props] of every stored edge
    nextNode,     \* the element id the store gives the next node
    nextRel,      \* the element id the store gives the next relationship
    constraints,  \* whether the Concept existence constraints are installed
    clock,        \* the store's / server's current time
    summary,      \* summary.counters of the last call's statement, as the handler logs it
    resp,         \* what the last call reported to its caller
    path_data,    \* the flat sequence handed to PathResponse.from_neo4j_path
    path,         \* the PathResponse it returned
    query,        \* the path and query parameters of the last traversal call
    subject,      \* the arguments handed to KantianValidator
    verdict,      \* how the validator answered them
    list_call,    \* the list call between its two statements, if there is one
    driver,       \* the module's global _driver (NoDriver: None)
    nextDriver,   \* the next driver object AsyncGraphDatabase.driver() creates
    verified,     \* the driver objects whose verify_connectivity() has succeeded
    calls         \* each get_db call: where it stands and the driver it was given

pathVars == <<path_data, path, query>>

validatorVars == <<subject, verdict>>

driverVars == <<driver, nextDriver, verified, calls>>

vars ==
    <<nodes, rels, nextNode, nextRel, constraints, clock, summary, resp, path_data, path,
      query, subject, verdict, list_call, driver, nextDriver, verified, calls>>

NodeIds == 1..MaxNodes
RelIds == 1..MaxRels

\* No list call is between its statements.
NoCall == [active |-> FALSE, q |-> EmptyMap, relationships |-> <<>>]

\* _driver = None, and a get_db call that has not started.
NoDriver == 0

Callers == 1..MaxCallers

Idle == [pc |-> "idle", instance |-> NoDriver, got |-> NoDriver]

\* The application serves requests on a verified driver, no call in flight.
Serving ==
    /\ list_call = NoCall
    /\ driver = 1
    /\ nextDriver = 2
    /\ verified = {1}
    /\ calls = [p \in Callers |-> Idle]

\* ---------------------------------------------------------------- responses
\* The deletion counters of a statement's ResultSummary.
Counters(nodes_deleted, relationships_deleted) ==
    [nodes_deleted |-> nodes_deleted, relationships_deleted |-> relationships_deleted]

NoDeletion == Counters(0, 0)

NoBody == EmptyMap

\* What a call reports: the HTTP status, the field of a field-tagged error entry
\* (NoField when the detail is a plain string or there is none), the exception
\* message, the element id an error detail names (0: none) and the body.
NoField == "<none>"

Response(op, status, field, msg, missing, body) ==
    [op |-> op, status |-> status, field |-> field, msg |-> msg,
     missing |-> missing, body |-> body]

\* str(KantianValidationError) by the field the validator rejected
Message(field) ==
    CASE field = "quality" -> "Invalid Quality"
      [] field = "modality" -> "Invalid Modality"
      [] field = "spatial_unit" -> "Invalid or missing spatial_unit"
      [] field = "relation_type" -> "Invalid relation_type"
      [] OTHER -> ""

\* ------------------------------------------------------------ concept models
\* ConceptCreate: the defaults of the fields a request leaves unset.
ConceptCreateDefaults ==
    [name |-> NULL, description |-> NULL, quality |-> NULL, modality |-> NULL,
     stability |-> "ephemeral", confidence |-> "0.5"]

\* model_dump(exclude_unset=False)
DumpAll(model_in, defaults) ==
    [k \in DOMAIN defaults |-> IF k \in DOMAIN model_in THEN model_in[k] ELSE defaults[k]]

\* params['confidence_score'] = params.pop('confidence')
RenameConfidence(m) ==
    [k \in (DOMAIN m \ {"confidence"})
           \cup (IF "confidence" \in DOMAIN m THEN {"confidence_score"} ELSE {}) |->
        IF k = "confidence_score" /\ "confidence" \in DOMAIN m THEN m["confidence"] ELSE m[k]]

\* The fields of Concept / ConceptResponse, as serialized (confidence_score goes
\* out under its alias, updated_at is not a field of the model).
ConceptOutKeys ==
    {"id", "name", "description", "quality", "modality", "stability", "confidence",
     "created_at"}

DbKey(k) == IF k = "confidence" THEN "confidence_score" ELSE k

\* ConceptResponse.model_validate(data) raises unless the required id and name
\* are there.
ConceptResponseValid(props) == "id" \in DOMAIN props /\ "name" \in DOMAIN props

ConceptBody(element_id, props) ==
    [elementId |-> element_id,
     props |-> [k \in ConceptOutKeys |-> Get(props, DbKey(k))]]

\* The store's check of the constraints concept_id_exists and concept_name_exists.
ConstraintsHold(props) ==
    constraints => ("id" \in DOMAIN props /\ "name" \in DOMAIN props)

IsConcept(element_id) ==
    element_id \in DOMAIN nodes /\ nodes[element_id].label = "Concept"

\* CREATE_CONCEPT's property map: null parameters store nothing.
CreateConceptProps(params, now) ==
    With(With(DropNull(params), "created_at", Stamp(now)), "updated_at", Stamp(now))

\* The C22 mutant: the statement also resets created_at.
C22_ResetsCreatedAt(props, update_data, now) ==
    With(With(SetProps(props, update_data), "updated_at", Stamp(now)),
         "created_at", Stamp(now))

\* UPDATE_CONCEPT_PARTIAL: SET c += $update_data, c.updated_at = datetime()
UpdateConceptProps(props, update_data, now) ==
    With(SetProps(props, update_data), "updated_at", Stamp(now))

\* ------------------------------------------------------------ request inputs
\* The request bodies the full specification draws from ...
BasicConceptCreateInputs ==
    { [name |-> "Heat"],
      [name |-> "Heat", quality |-> "Hot"] }

BasicConceptUpdateInputs ==
    { EmptyMap,
      [quality |-> "Limitation"],
      [quality |-> "Hot"] }

\* ... and the ones the concept endpoints' own specification draws from.
ConceptCreateInputs ==
    BasicConceptCreateInputs \cup
    { [name |-> "Heat", quality |-> "Reality"],
      [name |-> "Heat", modality |-> "Maybe"],
      [name |-> "Cold", quality |-> "Negation", modality |-> "Necessity/Contingency",
       stability |-> "stable", confidence |-> "0.9"] }

ConceptUpdateInputs ==
    BasicConceptUpdateInputs \cup
    { [modality |-> "Maybe"],
      [quality |-> NULL],
      [name |-> NULL] }

\* ... and those with the payload of the update test as well.
AttributeUpdateInputs ==
    ConceptUpdateInputs \cup
    { [description |-> "Updated Description", confidence |-> "0.95",
       stability |-> "stable"] }

\* A Concept as the sample data and the tests' helper create it: with an id.
SampleConcept(name) ==
    [label |-> "Concept",
     props |-> [id |-> "uuid-" \o name, name |-> name, quality |-> "Reality",
                modality |-> "Existence/Non-existence", confidence_score |-> "1.0",
                stability_status |-> "stable", creation_timestamp |-> Stamp(0)]]

\* ---------------------------------------------------------- concept handlers
\* A call that writes nothing: the store stays, and no statement deleted anything.
StoreUnchanged ==
    /\ UNCHANGED <<nodes, rels, nextNode, nextRel, constraints, clock>>
    /\ summary' = NoDeletion

handle_create_concept(concept_in) ==
    LET v == validate_concept(concept_in)
        params == RenameConfidence(DumpAll(concept_in, ConceptCreateDefaults))
        props == CreateConceptProps(params, clock)
    IN  IF v # Accept
        THEN /\ resp' = Response("create_concept", 422, NoField, Message(v), 0, NoBody)
             /\ StoreUnchanged
        ELSE IF ~ConstraintsHold(props)
        THEN /\ resp' = Response("create_concept", 409, NoField, "already exists", 0, NoBody)
             /\ StoreUnchanged
        ELSE /\ nextNode <= MaxNodes
             /\ nodes' = With(nodes, nextNode, [label |-> "Concept", props |-> props])
             /\ nextNode' = nextNode + 1
             /\ resp' = IF ConceptResponseValid(props)
                        THEN Response("create_concept", 201, NoField, "", 0,
                                      ConceptBody(nextNode, props))
                        ELSE Response("create_concept", 500, NoField,
                                      "Internal error validating created concept data.",
                                      0, NoBody)
             /\ summary' = NoDeletion
             /\ UNCHANGED <<rels, nextRel, constraints, clock>>

get_concept_by_id(element_id) ==
    /\ resp' = IF ~IsConcept(element_id)
               THEN Response("get_concept", 404, NoField, "not found", element_id, NoBody)
               ELSE IF ConceptResponseValid(nodes[element_id].props)
               THEN Response("get_concept", 200, NoField, "", 0,
                             ConceptBody(element_id, nodes[element_id].props))
               ELSE Response("get_concept", 500, NoField,
                             "Internal error validating concept data.", 0, NoBody)
    /\ StoreUnchanged

update_concept_partial(element_id, concept_update) ==
    LET v == validate_concept(concept_update)
        update_data == RenameConfidence(concept_update)
        props == UpdateConceptProps(nodes[element_id].props, update_data, clock)
    IN  IF concept_update = EmptyMap
        THEN /\ resp' = Response("update_concept", 400, NoField,
                                 "No update data provided.", 0, NoBody)
             /\ StoreUnchanged
        ELSE IF v # Accept
        THEN /\ resp' = Response("update_concept", 422, NoField, Message(v), 0, NoBody)
             /\ StoreUnchanged
        ELSE IF ~IsConcept(element_id)
        THEN /\ resp' = Response("update_concept", 404, NoField, "not found",
                                 element_id, NoBody)
             /\ StoreUnchanged
        ELSE IF ~ConstraintsHold(props)
        THEN /\ resp' = Response("update_concept", 409, NoField,
                                 "Update failed due to constraint", 0, NoBody)
             /\ StoreUnchanged
        ELSE /\ nodes' = [nodes EXCEPT ![element_id].props = props]
             /\ resp' = IF ConceptResponseValid(props)
                        THEN Response("update_concept", 200, NoField, "", 0,
                                      ConceptBody(element_id, props))
                        ELSE Response("update_concept", 500, NoField,
                                      "Internal error validating updated concept data.",
                                      0, NoBody)
             /\ summary' = NoDeletion
             /\ UNCHANGED <<rels, nextNode, nextRel, constraints, clock>>

\* DELETE_CONCEPT: DETACH DELETE removes the node with every relationship on it.
\* The C4 mutant: the node goes, its relationships stay.
C4_DeleteNodeOnly(element_id) ==
    /\ nodes' = [n \in DOMAIN nodes \ {element_id} |-> nodes[n]]
    /\ UNCHANGED rels
    /\ summary' = Counters(1, 0)

Incident(element_id) ==
    {r \in DOMAIN rels : rels[r].source = element_id \/ rels[r].target = element_id}

DetachDeleteNode(element_id) ==
    /\ nodes' = [n \in DOMAIN nodes \ {element_id} |-> nodes[n]]
    /\ rels' = [r \in DOMAIN rels \ Incident(element_id) |-> rels[r]]
    /\ summary' = Counters(1, Cardinality(Incident(element_id)))

\* The C20 mutant: deleting a Concept that is not there is answered NotFound.
C20_DeleteMissingNotFound(element_id) ==
    /\ IF IsConcept(element_id)
       THEN /\ DetachDeleteNode(element_id)
            /\ resp' = Response("delete_concept", 204, NoField, "", 0, NoBody)
       ELSE /\ UNCHANGED <<nodes, rels>>
            /\ summary' = NoDeletion
            /\ resp' = Response("delete_concept", 404, NoField, "not found",
                                element_id, NoBody)
    /\ UNCHANGED <<nextNode, nextRel, constraints, clock>>

delete_concept(element_id) ==
    /\ IF IsConcept(element_id)
       THEN DetachDeleteNode(element_id)
       ELSE UNCHANGED <<nodes, rels>> /\ summary' = NoDeletion
    /\ resp' = Response("delete_concept", 204, NoField, "", 0, NoBody)
    /\ UNCHANGED <<nextNode, nextRel, constraints, clock>>

\* ------------------------------------------------------- relationship models
\* RelationshipProperties: the defaults of the fields a request leaves unset.
RelationshipPropertiesDefaults ==
    [confidence_score |-> "0.5", created_at |-> NULL, updated_at |-> NULL,
     source_information |-> NULL, distance |-> NULL, spatial_unit |-> NULL,
     relation_type |-> NULL, spatial_dimension |-> NULL, temporal_distance |-> NULL,
     temporal_unit |-> NULL]

RelTypes == {"SPATIALLY_RELATES_TO", "CAUSES"}

\* The property maps the full specification draws from, and the ones the
\* relationship endpoints' own specification draws from.
BasicRelPropInputs ==
    { EmptyMap,
      [distance |-> "10"] }

RelPropInputs ==
    BasicRelPropInputs \cup
    { [distance |-> "10", spatial_unit |-> "meters"],
      [relation_type |-> "nearby"],
      [spatial_unit |-> NULL] }

\* The property maps of the update frame: RelPropInputs and the payload of
\* test_update_relationship_properties_success (one property changed, one
\* removed with a null, one added).
PropertyUpdateInputs ==
    RelPropInputs \cup
    { [confidence_score |-> "0.95", distance |-> NULL, relation_type |-> "nearby"] }

\* Element ids a request may name: UnknownId is one the store never gives; an id
\* whose entity is not yet created or was deleted resolves to nothing either.
UnknownId == MaxNodes + 1
RequestNodeIds == NodeIds \cup {UnknownId}
RequestRelIds == RelIds

\* final_properties of handle_create_relationship: every field with its default,
\* the two timestamps, nulls filtered out.
CreateRelationshipProps(properties, now) ==
    DropNull(With(With(DumpAll(properties, RelationshipPropertiesDefaults),
                       "created_at", Stamp(now)), "updated_at", Stamp(now)))

\* The C23 mutant: the update replaces the stored properties by the payload.
C23_ReplacesProps(props, update_payload, now) ==
    DropNull(With(update_payload, "updated_at", Stamp(now)))

\* update_payload with its updated_at, applied by the SET clause.
UpdateRelationshipProps(props, update_payload, now) ==
    SetProps(props, With(update_payload, "updated_at", Stamp(now)))

\* The rows of MATCH (source)-[r]-(target) WHERE elementId(r) = $element_id: the
\* undirected pattern matches an edge once per orientation.
UndirectedRows(element_id) ==
    IF element_id \notin DOMAIN rels THEN {}
    ELSE { [source |-> rels[element_id].source, target |-> rels[element_id].target],
           [source |-> rels[element_id].target, target |-> rels[element_id].source] }

\* RelationshipResponse.model_validate(record.data()), serialized.
RelationshipBody(element_id, row, type, props) ==
    [elementId |-> element_id, source_id |-> row.source, target_id |-> row.target,
     source_name |-> Get(nodes[row.source].props, "name"),
     target_name |-> Get(nodes[row.target].props, "name"),
     type |-> type,
     props |-> DumpAll(props, RelationshipPropertiesDefaults)]

\* ----------------------------------------------------- relationship handlers
\* The C9 mutant: the detail always names the target.
C9_NameTarget(source_id, target_id, source_exists) == target_id

\* missing_id = source_id if not source_exists else target_id
MissingId(source_id, target_id, source_exists) ==
    IF ~source_exists THEN source_id ELSE target_id

handle_create_relationship(rel_in) ==
    LET v == validate_relationship(rel_in.type, rel_in.properties)
        final_properties == CreateRelationshipProps(rel_in.properties, clock)
        source_exists == rel_in.source_id \in DOMAIN nodes
        target_exists == rel_in.target_id \in DOMAIN nodes
        missing_id == MissingId(rel_in.source_id, rel_in.target_id, source_exists)
    IN  IF v # Accept
        THEN /\ resp' = Response("create_relationship", 422, v, Message(v), 0, NoBody)
             /\ StoreUnchanged
        ELSE IF ~source_exists \/ ~target_exists
        THEN /\ resp' = Response("create_relationship", 404, NoField,
                                 "Source/Target node not found", missing_id, NoBody)
             /\ StoreUnchanged
        ELSE /\ nextRel <= MaxRels
             /\ rels' = With(rels, nextRel,
                             [source |-> rel_in.source_id, target |-> rel_in.target_id,
                              type |-> rel_in.type, props |-> final_properties])
             /\ nextRel' = nextRel + 1
             /\ resp' = Response("create_relationship", 201, NoField, "", 0,
                                 RelationshipBody(nextRel,
                                     [source |-> rel_in.source_id,
                                      target |-> rel_in.target_id],
                                     rel_in.type, final_properties))
             /\ summary' = NoDeletion
             /\ UNCHANGED <<nodes, nextNode, constraints, clock>>

\* result.single() on several records answers with the first one; the order of
\* the rows is the store's choice.
get_relationship_by_id(element_id) ==
    /\ IF UndirectedRows(element_id) = {}
       THEN resp' = Response("get_relationship", 404, NoField, "not found",
                             element_id, NoBody)
       ELSE \E record \in UndirectedRows(element_id) :
                resp' = Response("get_relationship", 200, NoField, "", 0,
                                 RelationshipBody(element_id, record,
                                     rels[element_id].type, rels[element_id].props))
    /\ StoreUnchanged

\* The C21 mutant: an update of a relationship that is not there is answered
\* 200 with an empty body.
C21_UpdateMissingAnswered(element_id, properties) ==
    LET props == UpdateRelationshipProps(rels[element_id].props, properties, clock)
        v == validate_relationship(rels[element_id].type, props)
    IN  IF properties = EmptyMap
        THEN /\ resp' = Response("update_relationship", 400, NoField,
                                 "No properties provided for update.", 0, NoBody)
             /\ StoreUnchanged
        ELSE IF UndirectedRows(element_id) = {}
        THEN /\ resp' = Response("update_relationship", 200, NoField, "", 0, NoBody)
             /\ StoreUnchanged
        ELSE /\ rels' = [rels EXCEPT ![element_id].props = props]
             /\ \E record \in UndirectedRows(element_id) :
                  resp' = IF v # Accept
                          THEN Response("update_relationship", 422, NoField,
                                        Message(v), 0, NoBody)
                          ELSE Response("update_relationship", 200, NoField, "", 0,
                                        RelationshipBody(element_id, record,
                                            rels[element_id].type, props))
             /\ summary' = NoDeletion
             /\ UNCHANGED <<nodes, nextNode, nextRel, constraints, clock>>

update_relationship(element_id, properties) ==
    LET props == UpdateRelationshipProps(rels[element_id].props, properties, clock)
        v == validate_relationship(rels[element_id].type, props)
    IN  IF properties = EmptyMap
        THEN /\ resp' = Response("update_relationship", 400, NoField,
                                 "No properties provided for update.", 0, NoBody)
             /\ StoreUnchanged
        ELSE IF UndirectedRows(element_id) = {}
        THEN /\ resp' = Response("update_relationship", 404, NoField, "not found",
                                 element_id, NoBody)
             /\ StoreUnchanged
        ELSE /\ rels' = [rels EXCEPT ![element_id].props = props]
             /\ \E record \in UndirectedRows(element_id) :
                  resp' = IF v # Accept
                          THEN Response("update_relationship", 422, NoField,
                                        Message(v), 0, NoBody)
                          ELSE Response("update_relationship", 200, NoField, "", 0,
                                        RelationshipBody(element_id, record,
                                            rels[element_id].type, props))
             /\ summary' = NoDeletion
             /\ UNCHANGED <<nodes, nextNode, nextRel, constraints, clock>>

delete_relationship(element_id) ==
    /\ rels' = [r \in DOMAIN rels \ {element_id} |-> rels[r]]
    /\ summary' = Counters(0, IF element_id \in DOMAIN rels THEN 1 ELSE 0)
    /\ resp' = Response("delete_relationship", 204, NoField, "", 0, NoBody)
    /\ UNCHANGED <<nodes, nextNode, nextRel, constraints, clock>>

\* ------------------------------------------------------ causal-chain traversal
\* max_depth: int = Query(3, ge=1, le=5); result_limit: int = Query(10, ge=1, le=50)
MaxDepthDefault == 3
MaxDepthGe == 1
MaxDepthLe == 5
ResultLimitDefault == 10
ResultLimitGe == 1
ResultLimitLe == 50

\* The query parameters a request gives or leaves out (Absent: left out).
Absent == -1
ChainDepths == {Absent, 0, 1, 2, MaxDepthLe + 1}
ChainLimits == {Absent, 0, 1, 2, ResultLimitLe + 1}

CausalChainQuery(concept_id, max_depth, result_limit) ==
    [k \in {"concept_id"}
           \cup (IF max_depth = Absent THEN {} ELSE {"max_depth"})
           \cup (IF result_limit = Absent THEN {} ELSE {"result_limit"}) |->
        CASE k = "concept_id" -> concept_id
          [] k = "max_depth" -> max_depth
          [] k = "result_limit" -> result_limit]

\* The parameters as the handler receives them.
MaxDepthOf(q) == IF "max_depth" \in DOMAIN q THEN q.max_depth ELSE MaxDepthDefault
ResultLimitOf(q) ==
    IF "result_limit" \in DOMAIN q THEN q.result_limit ELSE ResultLimitDefault

\* The C14 mutant: any max_depth and result_limit reach the handler.
C14_AnyQuery(q) == Accept

\* FastAPI's check of the Query constraints: the first parameter out of range.
QueryViolation(q) ==
    IF MaxDepthOf(q) < MaxDepthGe \/ MaxDepthOf(q) > MaxDepthLe THEN "max_depth"
    ELSE IF ResultLimitOf(q) < ResultLimitGe \/ ResultLimitOf(q) > ResultLimitLe
    THEN "result_limit"
    ELSE Accept

\* The last node of a matched path (a sequence of relationship ids).
EndOf(p) == rels[p[Len(p)]].target

\* -[rels:CAUSES*1..n]->: the matches of up to n more hops that extend the
\* matches in paths; a match never takes the same relationship twice.
RECURSIVE ExpandCauses(_, _)
ExpandCauses(paths, n) ==
    IF n = 0 \/ paths = {} THEN {}
    ELSE paths \cup
         ExpandCauses({Append(p, r) : <<p, r>> \in
                          {pr \in paths \X DOMAIN rels :
                              /\ rels[pr[2]].type = "CAUSES"
                              /\ rels[pr[2]].source = EndOf(pr[1])
                              /\ \A i \in DOMAIN pr[1] : pr[1][i] # pr[2]}},
                      n - 1)

\* GET_CAUSAL_CHAIN without its LIMIT: every match of
\* (start:Concept)-[rels:CAUSES*1..max_depth]->(effect:Concept) from $conceptId.
CausalChainMatches(concept_id, max_depth) ==
    {p \in ExpandCauses({<<r>> : r \in {x \in DOMAIN rels :
                                           /\ rels[x].type = "CAUSES"
                                           /\ rels[x].source = concept_id
                                           /\ IsConcept(concept_id)}},
                        max_depth) :
        IsConcept(EndOf(p))}

\* nodes(path) with each node's elementId, relationships(path) as maps.
PathNodeIds(p) == <<rels[p[1]].source>> \o [i \in DOMAIN p |-> rels[p[i]].target]

PathRecord(p) ==
    [nodes |-> [i \in DOMAIN PathNodeIds(p) |->
                   ConceptBody(PathNodeIds(p)[i], nodes[PathNodeIds(p)[i]].props)],
     relationships |-> [i \in DOMAIN p |->
                           [start_node_id |-> rels[p[i]].source,
                            end_node_id |-> rels[p[i]].target,
                            type |-> rels[p[i]].type,
                            properties |-> rels[p[i]].props]]]

\* PathResponse.model_validate(record) raises unless every node is a Concept.
PathResponseValid(p) ==
    \A i \in DOMAIN PathNodeIds(p) : ConceptResponseValid(nodes[PathNodeIds(p)[i]].props)

\* LIMIT $resultLimit without ORDER BY: any result_limit of the matches.
Limited(matches, result_limit) ==
    IF Cardinality(matches) <= result_limit THEN {matches}
    ELSE {chosen \in SUBSET matches : Cardinality(chosen) = result_limit}

\* The response lists one PathResponse per record that validates; the body keeps
\* each entry under the match it was built from (the list's order is the
\* store's).
get_causal_chain(q) ==
    /\ query' = q
    /\ IF QueryViolation(q) # Accept
       THEN resp' = Response("get_causal_chain", 422, QueryViolation(q), "", 0, NoBody)
       ELSE \E records_data \in Limited(CausalChainMatches(q.concept_id, MaxDepthOf(q)),
                                        ResultLimitOf(q)) :
               resp' = Response("get_causal_chain", 200, NoField, "", 0,
                                [p \in {x \in records_data : PathResponseValid(x)} |->
                                    PathRecord(p)])
    /\ StoreUnchanged

\* --------------------------------------------------------- relationship list
\* skip: int = Query(0, ge=0); limit: int = Query(10, ge=1, le=100)
ListSkipDefault == 0
ListSkipGe == 0
ListLimitDefault == 10
ListLimitGe == 1
ListLimitLe == 100

\* The type parameter left out, and the values a request gives.
NoFilter == "<no type>"
ListTypes == {NoFilter, "", "CAUSES", "causes", "NON_EXISTENT_TYPE"}
ListSkips == {Absent, ListSkipGe - 1, 1, 2}
ListLimits == {Absent, 0, 1, ListLimitLe + 1}

ListQuery(type, skip, limit) ==
    [k \in (IF type = NoFilter THEN {} ELSE {"type"})
           \cup (IF skip = Absent THEN {} ELSE {"skip"})
           \cup (IF limit = Absent THEN {} ELSE {"limit"}) |->
        CASE k = "type" -> type
          [] k = "skip" -> skip
          [] k = "limit" -> limit]

\* The parameters as the handler receives them.
TypeOf(q) == IF "type" \in DOMAIN q THEN q.type ELSE NoFilter
SkipOf(q) == IF "skip" \in DOMAIN q THEN q.skip ELSE ListSkipDefault
LimitOf(q) == IF "limit" \in DOMAIN q THEN q.limit ELSE ListLimitDefault

\* FastAPI's check of the Query constraints: the first parameter out of range.
ListViolation(q) ==
    IF SkipOf(q) < ListSkipGe THEN "skip"
    ELSE IF LimitOf(q) < ListLimitGe \/ LimitOf(q) > ListLimitLe THEN "limit"
    ELSE Accept

\* Cypher toUpper() on the type names that have a lower-case letter; every
\* other type name in use is upper-case already.
UpperCase == [causes |-> "CAUSES", Causes |-> "CAUSES"]

toUpper(s) == IF s \in DOMAIN UpperCase THEN UpperCase[s] ELSE s

\* The C25 mutant: the WHERE clause lets every relationship through.
C25_NoWhereClause(rel_type, type) == TRUE

\* "if type:" adds WHERE toUpper(type(rel)) = toUpper($rel_type); an absent or
\* empty type adds nothing.
TypeMatches(rel_type, type) ==
    type \in {NoFilter, ""} \/ toUpper(rel_type) = toUpper(type)

\* MATCH (source)-[rel]->(target) with the where clause: each relationship once.
ListMatches(store, type) ==
    {r \in DOMAIN store : TypeMatches(store[r].type, type)}

\* The sort key of ORDER BY properties(rel).created_at DESC as a number: the
\* stamp's time, and above every time for a relationship without created_at
\* (null sorts first in descending order).
CreatedRank(props) ==
    IF "created_at" \notin DOMAIN props THEN MaxListed + 1
    ELSE CHOOSE t \in 0..MaxListed : Stamp(t) = props["created_at"]

\* The orders the sort may produce: descending by key, the order among equal
\* keys being the store's choice.
RECURSIVE ListOrders(_, _)
ListOrders(store, matches) ==
    IF matches = {} THEN {<<>>}
    ELSE UNION { { <<r>> \o rest : rest \in ListOrders(store, matches \ {r}) } :
                 r \in {x \in matches :
                           \A y \in matches :
                               CreatedRank(store[x].props) >= CreatedRank(store[y].props)} }

\* SKIP $skip LIMIT $limit
Min(a, b) == IF a < b THEN a ELSE b

ListPage(order, skip, limit) == SubSeq(order, skip + 1, Min(skip + limit, Len(order)))

\* RelationshipResponse.model_validate(record_data): distance and
\* temporal_distance are Optional[float]; a string that is no number fails.
NotNumbers == {"seconds", "384,400"}

RelationshipResponseValid(props) ==
    /\ Get(props, "distance") \notin NotNumbers
    /\ Get(props, "temporal_distance") \notin NotNumbers

\* The relationships list of the response: the records of the page that
\* validate, in the page's order.
ListRecords(store, page) ==
    LET valid == SelectSeq(page, LAMBDA r : RelationshipResponseValid(store[r].props))
    IN  [i \in 1..Len(valid) |->
            RelationshipBody(valid[i],
                             [source |-> store[valid[i]].source,
                              target |-> store[valid[i]].target],
                             store[valid[i]].type, store[valid[i]].props)]

ListBody(relationships, total_count) ==
    [relationships |-> relationships, total_count |-> total_count]

\* The whole call with nothing else running: both statements read the same
\* store.
handle_list_relationships(q) ==
    /\ query' = q
    /\ IF ListViolation(q) # Accept
       THEN resp' = Response("list_relationships", 422, ListViolation(q), "", 0, NoBody)
       ELSE \E order \in ListOrders(rels, ListMatches(rels, TypeOf(q))) :
               resp' = Response("list_relationships", 200, NoField, "", 0,
                           ListBody(ListRecords(rels, ListPage(order, SkipOf(q), LimitOf(q))),
                                    Cardinality(ListMatches(rels, TypeOf(q)))))
    /\ StoreUnchanged

\* The call as it runs beside other requests.  get_db hands the handler a
\* session, and each tx.run on a session is a transaction of its own: the list
\* statement reads the store first ...
list_statement(q) ==
    /\ ~list_call.active
    /\ IF ListViolation(q) # Accept
       THEN /\ resp' = Response("list_relationships", 422, ListViolation(q), "", 0, NoBody)
            /\ query' = q
            /\ UNCHANGED list_call
       ELSE /\ \E order \in ListOrders(rels, ListMatches(rels, TypeOf(q))) :
                 list_call' = [active |-> TRUE, q |-> q,
                               relationships |->
                                   ListRecords(rels, ListPage(order, SkipOf(q), LimitOf(q)))]
            /\ UNCHANGED <<resp, query>>
    /\ UNCHANGED <<nodes, rels, nextNode, nextRel, constraints, clock, summary>>

\* ... and the count statement reads it when its turn comes; then the call
\* answers.
count_statement ==
    /\ list_call.active
    /\ query' = list_call.q
    /\ resp' = Response("list_relationships", 200, NoField, "", 0,
                        ListBody(list_call.relationships,
                                 Cardinality(ListMatches(rels, TypeOf(list_call.q)))))
    /\ list_call' = NoCall
    /\ StoreUnchanged

\* --------------------------------------------------------------- the driver
\* get_async_driver up to its await.  With no driver yet it creates one, binds
\* the global to it and starts verify_connectivity(); with a driver bound it
\* returns that driver.
get_async_driver(p) ==
    /\ calls[p].pc = "idle"
    /\ IF driver = NoDriver
       THEN /\ nextDriver <= MaxDrivers
            /\ driver' = nextDriver
            /\ nextDriver' = nextDriver + 1
            /\ calls' = [calls EXCEPT ![p] = [pc |-> "verifying", instance |-> nextDriver,
                                              got |-> NoDriver]]
       ELSE /\ calls' = [calls EXCEPT ![p] = [pc |-> "returned", instance |-> NoDriver,
                                              got |-> driver]]
            /\ UNCHANGED <<driver, nextDriver>>
    /\ UNCHANGED verified

\* verify_connectivity() comes back: on failure the exception is re-raised and
\* the global stays bound; on success the call returns what the global is bound
\* to by then, or raises RuntimeError when it is bound to nothing.
verify_connectivity(p, connected) ==
    /\ calls[p].pc = "verifying"
    /\ IF ~connected
       THEN /\ calls' = [calls EXCEPT ![p].pc = "raised"]
            /\ UNCHANGED verified
       ELSE /\ verified' = verified \cup {calls[p].instance}
            /\ calls' = [calls EXCEPT ![p].pc = IF driver = NoDriver THEN "raised"
                                                ELSE "returned",
                                      ![p].got = driver]
    /\ UNCHANGED <<driver, nextDriver>>

\* get_db is over (its session closed, or its error reported): the request is
\* done and another one may come.
get_db_done(p) ==
    /\ calls[p].pc \in {"returned", "raised"}
    /\ calls' = [calls EXCEPT ![p] = Idle]
    /\ UNCHANGED <<driver, nextDriver, verified>>

\* close_async_driver: the driver is closed and the global bound to nothing.
close_async_driver ==
    /\ driver # NoDriver
    /\ driver' = NoDriver
    /\ UNCHANGED <<nextDriver, verified, calls>>

\* --------------------------------------------------------------- categories
\* The nodes with a label and a name.
Named(label, name) ==
    {n \in DOMAIN nodes : nodes[n].label = label /\ Get(nodes[n].props, "name") = name}

\* The nodes at the source of a HAS_SUBCATEGORY relationship that ends at n / the
\* Subcategories at the end of one that starts at n.
Parents(n) ==
    {rels[r].source : r \in {x \in DOMAIN rels : /\ rels[x].type = "HAS_SUBCATEGORY"
                                                   /\ rels[x].target = n}}

Subcategories(n) ==
    {rels[r].target : r \in {x \in DOMAIN rels : /\ rels[x].type = "HAS_SUBCATEGORY"
                                                   /\ rels[x].source = n
                                                   /\ nodes[rels[x].target].label = "Subcategory"}}

\* The names a request gives.
CategoryNames == {"Quantity", "Quality"}
SubcategoryNames == {"Unity", "Quantity"}

\* CREATE (c:Category {name: $name, description: $description}); the name
\* constraint refuses a second Category of the name.
create_category(category_data) ==
    IF constraints /\ Named("Category", category_data.name) # {}
    THEN /\ resp' = Response("create_category", 409, NoField, "already exists", 0, NoBody)
         /\ StoreUnchanged
    ELSE /\ nextNode <= MaxCategoryNodes
         /\ nodes' = With(nodes, nextNode,
                          [label |-> "Category", props |-> DropNull(category_data)])
         /\ nextNode' = nextNode + 1
         /\ resp' = Response("create_category", 201, NoField, "", 0,
                             [elementId |-> nextNode, name |-> category_data.name])
         /\ summary' = NoDeletion
         /\ UNCHANGED <<rels, nextRel, constraints, clock>>

\* The parent check, then MATCH (p:Category {name: $parent_name}) CREATE
\* (s:Subcategory {...}) MERGE (p)-[:HAS_SUBCATEGORY]->(s): one Subcategory and
\* one relationship per matched parent; the name constraint refuses the whole
\* statement when it would leave two Subcategories of the name.  The answer is
\* built from the first record.
create_subcategory(parent_category_name, subcategory_data) ==
    LET parents == Named("Category", parent_category_name)
        count == Cardinality(parents)
        \* the matched parents in the order of the statement's rows
        rows == CHOOSE f \in [1..count -> parents] : \A i, j \in 1..count : i # j => f[i] # f[j]
    IN  IF parents = {}
        THEN /\ resp' = Response("create_subcategory", 404, NoField,
                                 "Parent category not found", 0, NoBody)
             /\ StoreUnchanged
        ELSE IF constraints /\ (count > 1 \/ Named("Subcategory", subcategory_data.name) # {})
        THEN /\ resp' = Response("create_subcategory", 409, NoField, "already exists",
                                 0, NoBody)
             /\ StoreUnchanged
        ELSE /\ nextNode + count - 1 <= MaxCategoryNodes
             /\ nodes' = [n \in DOMAIN nodes \cup (nextNode..(nextNode + count - 1)) |->
                             IF n \in DOMAIN nodes THEN nodes[n]
                             ELSE [label |-> "Subcategory",
                                   props |-> DropNull(subcategory_data)]]
             /\ rels' = [r \in DOMAIN rels \cup (nextRel..(nextRel + count - 1)) |->
                            IF r \in DOMAIN rels THEN rels[r]
                            ELSE [source |-> rows[r - nextRel + 1],
                                  target |-> nextNode + (r - nextRel),
                                  type |-> "HAS_SUBCATEGORY", props |-> EmptyMap]]
             /\ nextNode' = nextNode + count
             /\ nextRel' = nextRel + count
             /\ \E first \in nextNode..(nextNode + count - 1) :
                   resp' = Response("create_subcategory", 201, NoField, "", 0,
                                    [elementId |-> first, name |-> subcategory_data.name])
             /\ summary' = NoDeletion
             /\ UNCHANGED <<constraints, clock>>

\* GET_CATEGORY_BY_NAME: the Category of the name, or the parent Category of the
\* Subcategory of the name; LIMIT 1 keeps one of several.
get_category_by_name(name) ==
    LET finalCat == Named("Category", name)
                    \cup {p \in UNION {Parents(n) : n \in Named("Subcategory", name)} :
                             nodes[p].label = "Category"}
    IN  /\ IF finalCat = {}
           THEN resp' = Response("get_category_by_name", 404, NoField, "not found", 0, NoBody)
           ELSE \E cat \in finalCat :
                   resp' = Response("get_category_by_name", 200, NoField, "", 0,
                                    [elementId |-> cat, name |-> Get(nodes[cat].props, "name"),
                                     subcategories |-> Subcategories(cat)])
        /\ StoreUnchanged

\* ---------------------------------------------------- spatial relationships
\* limit: int = Query(50, ge=1, le=200)
SpatialLimitDefault == 50
SpatialLimitGe == 1
SpatialLimitLe == 200

SpatialLimits == {Absent, 0, 1, SpatialLimitLe + 1}

SpatialLimitOf(q) == IF "limit" \in DOMAIN q THEN q.limit ELSE SpatialLimitDefault

\* The rows of MATCH (c:Concept)-[r:SPATIALLY_RELATES_TO]-(other:Concept) WHERE
\* elementId(c) = $conceptId, one per relationship at c, with the two CASE
\* columns as the query computes them:
\*   startNode = CASE WHEN startNode(r) = c THEN c ELSE other END
\*   endNode   = CASE WHEN endNode(r) = c THEN other ELSE c END
SpatialRow(r, c) ==
    LET other == IF rels[r].source = c THEN rels[r].target ELSE rels[r].source
    IN  [r |-> r, other |-> other,
         startNode |-> IF rels[r].source = c THEN c ELSE other,
         endNode |-> IF rels[r].target = c THEN other ELSE c]

SpatialRows(c) ==
    {SpatialRow(r, c) :
        r \in {x \in DOMAIN rels :
                  /\ rels[x].type = "SPATIALLY_RELATES_TO"
                  /\ c \in {rels[x].source, rels[x].target}
                  /\ IsConcept(rels[x].source)
                  /\ IsConcept(rels[x].target)}}

\* r.confidence_score as ORDER BY confidence DESC ranks it, in hundredths; null
\* sorts first.
ConfidenceRank(props) ==
    CASE "confidence_score" \notin DOMAIN props -> 101
      [] props["confidence_score"] = "1.0" -> 100
      [] props["confidence_score"] = "0.95" -> 95
      [] props["confidence_score"] = "0.5" -> 50

\* ORDER BY confidence DESC LIMIT $limit: limit rows none of which ranks below a
\* row left out; which of equally ranked rows stay is the store's choice.
SpatialLimited(rows, limit) ==
    IF Cardinality(rows) <= limit THEN {rows}
    ELSE {chosen \in SUBSET rows :
             /\ Cardinality(chosen) = limit
             /\ \A x \in chosen, y \in rows \ chosen :
                   ConfidenceRank(rels[x.r].props) >= ConfidenceRank(rels[y.r].props)}

\* The direction the handler works out from the two columns; a row with neither
\* column at the Concept is skipped.
Direction(row, concept_id) ==
    IF row.startNode = concept_id THEN "outgoing"
    ELSE IF row.endNode = concept_id THEN "incoming"
    ELSE "unknown"

\* SpatialRelationshipInfo(**rel_info_for_model): the related Concept needs a
\* name, and float(distance) must have worked.
SpatialInfoValid(row) ==
    /\ "name" \in DOMAIN nodes[row.other].props
    /\ RelationshipResponseValid(rels[row.r].props)

SpatialInfo(row, concept_id) ==
    [elementId |-> row.r, related_concept_id |-> row.other,
     related_concept_name |-> Get(nodes[row.other].props, "name"),
     relationship_type |-> rels[row.r].type,
     direction |-> Direction(row, concept_id),
     props |-> DumpAll(rels[row.r].props, RelationshipPropertiesDefaults)]

\* The response lists one entry per record that gets a direction and validates;
\* the body keeps each entry under its relationship.
get_spatial_relationships(q) ==
    /\ query' = q
    /\ IF SpatialLimitOf(q) < SpatialLimitGe \/ SpatialLimitOf(q) > SpatialLimitLe
       THEN resp' = Response("get_spatial_relationships", 422, "limit", "", 0, NoBody)
       ELSE \E records \in SpatialLimited(SpatialRows(q.concept_id), SpatialLimitOf(q)) :
               LET kept == {row \in records : /\ Direction(row, q.concept_id) # "unknown"
                                              /\ SpatialInfoValid(row)}
               IN  resp' = Response("get_spatial_relationships", 200, NoField, "", 0,
                               [r \in {row.r : row \in kept} |->
                                   SpatialInfo(CHOOSE row \in kept : row.r = r,
                                               q.concept_id)])
    /\ StoreUnchanged

\* ------------------------------------------------------ the bootstrap loader
\* The store a statement runs on and leaves behind; aborted: a statement failed.
Store(n, r, next_node, next_rel, c) ==
    [nodes |-> n, rels |-> r, nextNode |-> next_node, nextRel |-> next_rel,
     constraints |-> c, aborted |-> FALSE]

\* MATCH (x:Label {name: "..."})
MatchNodes(st, pattern) ==
    {n \in DOMAIN st.nodes : /\ st.nodes[n].label = pattern[1]
                             /\ Get(st.nodes[n].props, "name") = pattern[2]}

\* CREATE (x:Label {...}); randomUUID() gives the node an id no other node has.
CreateNode(st, label, props) ==
    [st EXCEPT !.nodes = With(st.nodes, st.nextNode,
                              [label |-> label,
                               props |-> IF "id" \in DOMAIN props
                                         THEN With(props, "id",
                                                   "uuid-" \o ToString(st.nextNode))
                                         ELSE props]),
               !.nextNode = @ + 1]

\* MERGE (x:Label {name: "..."}) ON CREATE SET ...
MergeNode(st, label, name, on_create) ==
    IF MatchNodes(st, <<label, name>>) # {} THEN st
    ELSE CreateNode(st, label, With(on_create, "name", name))

\* CREATE (a)-[:TYPE {...}]->(b) for every row <<a, b>>, one row after the other.
RECURSIVE CreateRels(_, _, _, _)
CreateRels(st, rows, type, props) ==
    IF rows = {} THEN st
    ELSE LET row == CHOOSE p \in rows :
                        \A q \in rows : p[1] < q[1] \/ (p[1] = q[1] /\ p[2] <= q[2])
         IN  CreateRels([st EXCEPT !.rels = With(st.rels, st.nextRel,
                                                [source |-> row[1], target |-> row[2],
                                                 type |-> type, props |-> props]),
                                   !.nextRel = @ + 1],
                        rows \ {row}, type, props)

\* MATCH (a:..), (b:..) CREATE (a)-[:TYPE {...}]->(b)
MatchCreate(st, a, b, type, props) ==
    CreateRels(st, MatchNodes(st, a) \X MatchNodes(st, b), type, props)

\* MATCH (a:..), (b:..) MERGE (a)-[r:TYPE]->(b) ON CREATE SET r...
MatchMerge(st, a, b, type, on_create) ==
    CreateRels(st,
               {row \in MatchNodes(st, a) \X MatchNodes(st, b) :
                    ~\E r \in DOMAIN st.rels : /\ st.rels[r].type = type
                                                /\ st.rels[r].source = row[1]
                                                /\ st.rels[r].target = row[2]},
               type, on_create)

\* MATCH (x:Label {name: "..."}) SET x.k = v, ...
MatchSet(st, pattern, props) ==
    [st EXCEPT !.nodes = [n \in DOMAIN st.nodes |->
                             IF n \in MatchNodes(st, pattern)
                             THEN [st.nodes[n] EXCEPT !.props = SetProps(@, props)]
                             ELSE st.nodes[n]]]

\* CREATE CONSTRAINT ... IF NOT EXISTS on a label: the name is unique (Category,
\* Subcategory) or the id is unique and id and name exist (Concept).  The store
\* refuses a constraint its data violates, and the loader stops there.
CreateConstraint(st, label) ==
    LET labelled == {n \in DOMAIN st.nodes : st.nodes[n].label = label}
        key == IF label = "Concept" THEN "id" ELSE "name"
        holds == /\ \A n \in labelled : "name" \in DOMAIN st.nodes[n].props
                 /\ \A n \in labelled : key \in DOMAIN st.nodes[n].props
                 /\ \A n, m \in labelled :
                       n # m => st.nodes[n].props[key] # st.nodes[m].props[key]
    IN  IF ~holds THEN [st EXCEPT !.aborted = TRUE]
        ELSE IF label = "Concept" THEN [st EXCEPT !.constraints = TRUE]
        ELSE st

Statement(op, a, b, type, props) ==
    [op |-> op, a |-> a, b |-> b, type |-> type, props |-> props]

\* category_structure_statements.STATEMENTS for two of the categories, then
\* concept_structure_statements.STATEMENTS.
SchemaStatements ==
    << Statement("constraint", <<"Category", "">>, <<>>, "", EmptyMap),
       Statement("constraint", <<"Subcategory", "">>, <<>>, "", EmptyMap),
       Statement("merge", <<"Category", "Quantity">>, <<>>, "",
                 [description |-> "Deals with the extension of concepts"]),
       Statement("merge", <<"Category", "Relation">>, <<>>, "",
                 [description |-> "Deals with how concepts relate to each other"]),
       Statement("merge", <<"Subcategory", "Unity">>, <<>>, "",
                 [description |-> "Concept of One"]),
       Statement("merge", <<"Subcategory", "Causality">>, <<>>, "",
                 [description |-> "Relation of cause and effect"]),
       Statement("match_merge", <<"Category", "Quantity">>, <<"Subcategory", "Unity">>,
                 "HAS_SUBCATEGORY", EmptyMap),
       Statement("match_merge", <<"Category", "Relation">>, <<"Subcategory", "Causality">>,
                 "HAS_SUBCATEGORY", EmptyMap),
       Statement("match_set", <<"Subcategory", "Unity">>, <<>>, "",
                 [formal_definition |->
                      "A concept considered as including only a single instance"]),
       Statement("match_set", <<"Subcategory", "Causality">>, <<>>, "",
                 [formal_definition |-> "The relation of cause to effect"]),
       Statement("constraint", <<"Concept", "">>, <<>>, "", EmptyMap) >>

\* sample_concept_statements.STATEMENTS for Heat, Expansion and Atom.
SampleStatements ==
    << Statement("create", <<"Concept", "Heat">>, <<>>, "", SampleConcept("Heat").props),
       Statement("create", <<"Concept", "Expansion">>, <<>>, "",
                 SampleConcept("Expansion").props),
       Statement("match_create", <<"Concept", "Heat">>, <<"Subcategory", "Causality">>,
                 "INSTANCE_OF",
                 [confidence_score |-> "1.0", creation_timestamp |-> Stamp(0),
                  source_information |-> "manual classification"]),
       Statement("match_create", <<"Concept", "Heat">>, <<"Concept", "Expansion">>,
                 "CAUSES",
                 [confidence_score |-> "0.95", creation_timestamp |-> Stamp(0),
                  source_information |-> "manual entry"]),
       Statement("merge", <<"Concept", "Atom">>, <<>>, "",
                 [id |-> "uuid", confidence_score |-> "0.98",
                  stability_status |-> "stable", creation_timestamp |-> Stamp(0)]),
       Statement("match_merge", <<"Concept", "Atom">>, <<"Subcategory", "Unity">>,
                 "INSTANCE_OF",
                 [confidence_score |-> "0.98", creation_timestamp |-> Stamp(0),
                  source_information |-> "Sample Data Script"]) >>

\* run_single_statement, by the kind of the statement.
RunStatement(st, stmt) ==
    CASE stmt.op = "constraint" -> CreateConstraint(st, stmt.a[1])
      [] stmt.op = "create" -> CreateNode(st, stmt.a[1], stmt.props)
      [] stmt.op = "merge" -> MergeNode(st, stmt.a[1], stmt.a[2], stmt.props)
      [] stmt.op = "match_create" -> MatchCreate(st, stmt.a, stmt.b, stmt.type, stmt.props)
      [] stmt.op = "match_merge" -> MatchMerge(st, stmt.a, stmt.b, stmt.type, stmt.props)
      [] stmt.op = "match_set" -> MatchSet(st, stmt.a, stmt.props)

\* execute_cypher_statements: each statement in a transaction of its own, in
\* order; the first failure stops the loader and leaves what was written.
RECURSIVE ExecuteStatements(_, _, _)
ExecuteStatements(st, statements, i) ==
    IF i > Len(statements) \/ st.aborted THEN st
    ELSE ExecuteStatements(RunStatement(st, statements[i]), statements, i + 1)

run_setup_scripts(include_samples) ==
    LET done == ExecuteStatements(
                    Store(nodes, rels, nextNode, nextRel, constraints),
                    SchemaStatements \o (IF include_samples THEN SampleStatements ELSE <<>>),
                    1)
    IN  /\ nodes' = done.nodes
        /\ rels' = done.rels
        /\ nextNode' = done.nextNode
        /\ nextRel' = done.nextRel
        /\ constraints' = done.constraints
        /\ resp' = Response("run_setup_scripts", 0, NoField,
                            IF done.aborted THEN "aborted" ELSE "completed", 0,
                            [include_samples |-> include_samples])
        /\ summary' = NoDeletion
        /\ UNCHANGED clock

\* MATCH (n) DETACH DELETE n: the constraints stay.
clear_database ==
    /\ nodes' = EmptyMap
    /\ rels' = EmptyMap
    /\ nextNode' = 1
    /\ nextRel' = 1
    /\ resp' = Response("clear_database", 0, NoField, "completed", 0, NoBody)
    /\ summary' = Counters(Cardinality(DOMAIN nodes), Cardinality(DOMAIN rels))
    /\ UNCHANGED <<constraints, clock>>

\* ------------------------------------------------------- path reconstruction
\* An element of the flat sequence: a node dict or a relationship-type string.
Dict(m) == [dict |-> m]
Str(x) == [str |-> x]

IsDict(e) == "dict" \in DOMAIN e
IsStr(e) == "str" \in DOMAIN e

\* The elements the sequences are drawn from: two Concept dicts, a dict without
\* elementId, a dict Concept.model_validate rejects, and a type string.
PathElements ==
    { Dict([elementId |-> "4:1", id |-> "uuid-Heat", name |-> "Heat"]),
      Dict([elementId |-> "4:2", id |-> "uuid-Expansion", name |-> "Expansion"]),
      Dict([id |-> "uuid-Cold", name |-> "Cold"]),
      Dict([elementId |-> "4:3", name |-> "Nameless"]),
      Str("CAUSES") }

PathInputs == UNION {[1..n -> PathElements] : n \in 0..MaxPath}

PathResponse(path_nodes, relationships) ==
    [called |-> TRUE, nodes |-> path_nodes, relationships |-> relationships]

NotCalled == [called |-> FALSE, nodes |-> <<>>, relationships |-> <<>>]

\* Step 1: the dicts at the even (0-based) positions, each elementId once, in
\* order of first registration; a dict that fails Concept validation is skipped.
RECURSIVE ExtractNodes(_, _, _)
ExtractNodes(data, i, nodes_map) ==
    IF i > Len(data) THEN nodes_map
    ELSE LET node_element_id == IF IsDict(data[i]) THEN Get(data[i].dict, "elementId")
                                ELSE NULL
             registered == {nodes_map[j].elementId : j \in DOMAIN nodes_map}
         IN  ExtractNodes(data, i + 2,
                 IF /\ IsDict(data[i])
                    /\ node_element_id # NULL
                    /\ node_element_id \notin registered
                    /\ ConceptResponseValid(data[i].dict)
                 THEN Append(nodes_map, data[i].dict)
                 ELSE nodes_map)

\* Step 2: one Relationship per (dict, str, dict) window whose two dicts carry
\* an elementId; any other window is logged and skipped.
RECURSIVE ExtractRelationships(_, _, _)
ExtractRelationships(data, i, rels_list) ==
    IF i > Len(data) - 2 THEN rels_list
    ELSE LET start_node_id == Get(data[i].dict, "elementId")
             end_node_id == Get(data[i + 2].dict, "elementId")
         IN  ExtractRelationships(data, i + 2,
                 IF /\ IsDict(data[i]) /\ IsStr(data[i + 1]) /\ IsDict(data[i + 2])
                    /\ start_node_id # NULL /\ end_node_id # NULL
                 THEN Append(rels_list, [start_node_id |-> start_node_id,
                                         end_node_id |-> end_node_id,
                                         type |-> data[i + 1].str])
                 ELSE rels_list)

from_neo4j_path(data) ==
    IF data = <<>> THEN PathResponse(<<>>, <<>>)
    ELSE PathResponse(ExtractNodes(data, 1, <<>>), ExtractRelationships(data, 1, <<>>))

\* --------------------------------------------------------------- the system
\* The store before the first call: never set up (no constraints, empty) or set
\* up, and with or without Concepts that carry an id, as the sample data and the
\* tests' helper create them.  No relationships.
SampleNames == <<"Heat", "Expansion">>

SeededNodes == [n \in DOMAIN SampleNames |-> SampleConcept(SampleNames[n])]

\* The endpoints a relationship request names where no Concept is ever created:
\* the sample Concepts' ids (which resolve to nothing in an empty store) and
\* UnknownId.
EndpointIds == DOMAIN SampleNames \cup {UnknownId}

InitStore ==
    /\ constraints \in BOOLEAN
    /\ \/ nodes = EmptyMap /\ nextNode = 1
       \/ nodes = SeededNodes /\ nextNode = Len(SampleNames) + 1
    /\ rels = EmptyMap
    /\ nextRel = 1
    /\ clock = 0
    /\ summary = NoDeletion
    /\ resp = Response("none", 0, NoField, "", 0, NoBody)

Init ==
    /\ InitStore
    /\ path_data = <<>>
    /\ path = NotCalled
    /\ query = EmptyMap
    /\ subject = NoSubject
    /\ verdict = NotValidated
    /\ Serving

\* A flat sequence is about to be reconstructed; the store plays no part.
InitPath ==
    /\ InitStore
    /\ constraints
    /\ nodes = EmptyMap
    /\ path_data \in PathInputs
    /\ path = NotCalled
    /\ query = EmptyMap
    /\ subject = NoSubject
    /\ verdict = NotValidated
    /\ Serving

\* A Concept as POST /concepts stores it where no constraint is installed:
\* CREATE_CONCEPT sets no id.
CreatedConcept(name) ==
    [label |-> "Concept",
     props |-> CreateConceptProps(
                   RenameConfidence(DumpAll([name |-> name], ConceptCreateDefaults)), 0)]

\* A relationship as POST /relationships stores it.
CreatedRelationship(type, source, target) ==
    [source |-> source, target |-> target, type |-> type,
     props |-> CreateRelationshipProps(EmptyMap, 0)]

\* The relationships of a traversed store, by number: either type, between any
\* two of the sample Concepts (loops included).
ChainEdges == 0..(2 * Len(SampleNames) * Len(SampleNames) - 1)

ChainEdge(e) ==
    CreatedRelationship(IF e % 2 = 0 THEN "CAUSES" ELSE "SPATIALLY_RELATES_TO",
                        ((e \div 2) % Len(SampleNames)) + 1,
                        (e \div (2 * Len(SampleNames))) + 1)

\* The stores a traversal runs on: the sample Concepts (the second one possibly
\* created through the API instead, where no constraint forbids it) with up to
\* MaxChain different relationships between them.
InitChain ==
    /\ constraints \in BOOLEAN
    /\ nodes \in {SeededNodes} \cup
                 (IF constraints THEN {}
                  ELSE {[SeededNodes EXCEPT ![2] = CreatedConcept(SampleNames[2])]})
    /\ nextNode = Len(SampleNames) + 1
    /\ \E n \in 0..MaxChain :
          /\ \E f \in [1..n -> ChainEdges] :
                /\ \A i, j \in 1..n : i < j => f[i] < f[j]
                /\ rels = [r \in 1..n |-> ChainEdge(f[r])]
          /\ nextRel = n + 1
    /\ clock = 0
    /\ summary = NoDeletion
    /\ resp = Response("none", 0, NoField, "", 0, NoBody)
    /\ path_data = <<>>
    /\ path = NotCalled
    /\ query = EmptyMap
    /\ subject = NoSubject
    /\ verdict = NotValidated
    /\ Serving

\* The stores a Concept is updated on: those of InitChain with at most one
\* relationship.
InitLinked ==
    /\ InitChain
    /\ nextRel <= 2

\* The Concepts of a listed store and the sample relationships between them
\* (sample_concept_statements.py: Heat CAUSES Expansion, Lightning PRECEDES
\* Thunder); the loader writes creation_timestamp, never created_at.
ListedNames == <<"Heat", "Expansion", "Lightning", "Thunder">>

ListedNodes == [n \in DOMAIN ListedNames |-> SampleConcept(ListedNames[n])]

SampleRelationships ==
    << [source |-> 1, target |-> 2, type |-> "CAUSES",
        props |-> [confidence_score |-> "0.95", creation_timestamp |-> Stamp(0),
                   source_information |-> "manual entry"]],
       [source |-> 3, target |-> 4, type |-> "PRECEDES",
        props |-> [confidence_score |-> "0.98", creation_timestamp |-> Stamp(0),
                   source_information |-> "manual entry",
                   temporal_distance |-> "seconds", temporal_unit |-> "seconds",
                   temporal_order |-> "1"]] >>

\* A relationship as POST /relationships stored it at time now.
ListedRelationship(type, now) ==
    [source |-> 1, target |-> 2, type |-> type,
     props |-> CreateRelationshipProps(EmptyMap, now)]

\* The stores a list runs on: the sample relationships or none, then up to
\* MaxListed relationships made by calls, in the order of their creation, each
\* within the same reading of the clock as the one before it or one later.
InitListed ==
    /\ constraints = TRUE
    /\ nodes = ListedNodes
    /\ nextNode = Len(ListedNames) + 1
    /\ \E loaded \in BOOLEAN, n \in 0..MaxListed :
          \E type \in [1..n -> {"CAUSES", "causes"}], at \in [1..n -> 0..MaxListed] :
             /\ \A i \in 1..n :
                   at[i] \in (IF i = 1 THEN {0} ELSE {at[i - 1], at[i - 1] + 1})
             /\ rels = (IF loaded THEN SampleRelationships ELSE <<>>)
                          \o [i \in 1..n |-> ListedRelationship(type[i], at[i])]
    /\ nextRel = Len(rels) + 1
    /\ clock = MaxListed
    /\ summary = NoDeletion
    /\ resp = Response("none", 0, NoField, "", 0, NoBody)
    /\ path_data = <<>>
    /\ path = NotCalled
    /\ query = EmptyMap
    /\ subject = NoSubject
    /\ verdict = NotValidated
    /\ Serving

ListRelationships ==
    /\ \E type \in ListTypes, skip \in ListSkips, limit \in ListLimits :
          handle_list_relationships(ListQuery(type, skip, limit))
    /\ UNCHANGED <<path_data, path, subject, verdict, list_call, driverVars>>

ListStatement ==
    /\ \E type \in ListTypes, skip \in ListSkips, limit \in ListLimits :
          list_statement(ListQuery(type, skip, limit))
    /\ UNCHANGED <<path_data, path, subject, verdict, driverVars>>

CountStatement ==
    /\ count_statement
    /\ UNCHANGED <<path_data, path, subject, verdict, driverVars>>

\* The application has started and no request has come yet.
InitDriver ==
    /\ InitStore
    /\ path_data = <<>>
    /\ path = NotCalled
    /\ query = EmptyMap
    /\ subject = NoSubject
    /\ verdict = NotValidated
    /\ list_call = NoCall
    /\ driver = NoDriver
    /\ nextDriver = 1
    /\ verified = {}
    /\ calls = [p \in Callers |-> Idle]

storeVars == <<nodes, rels, nextNode, nextRel, constraints, clock, summary, resp>>

GetAsyncDriver ==
    /\ \E p \in Callers : get_async_driver(p)
    /\ UNCHANGED <<storeVars, pathVars, validatorVars, list_call>>

VerifyConnectivity ==
    /\ \E p \in Callers, connected \in BOOLEAN : verify_connectivity(p, connected)
    /\ UNCHANGED <<storeVars, pathVars, validatorVars, list_call>>

GetDbDone ==
    /\ \E p \in Callers : get_db_done(p)
    /\ UNCHANGED <<storeVars, pathVars, validatorVars, list_call>>

CloseAsyncDriver ==
    /\ close_async_driver
    /\ UNCHANGED <<storeVars, pathVars, validatorVars, list_call>>

\* An empty store, with the constraints of the loader or without.
InitCategory ==
    /\ InitStore
    /\ nodes = EmptyMap
    /\ path_data = <<>>
    /\ path = NotCalled
    /\ query = EmptyMap
    /\ subject = NoSubject
    /\ verdict = NotValidated
    /\ Serving

CreateCategory ==
    /\ \E name \in CategoryNames, description \in {NULL, "Deals with the extension of concepts"} :
          create_category([name |-> name, description |-> description])
    /\ UNCHANGED <<pathVars, validatorVars, list_call, driverVars>>

CreateSubcategory ==
    /\ \E parent_category_name \in CategoryNames, name \in SubcategoryNames :
          create_subcategory(parent_category_name, [name |-> name, description |-> NULL])
    /\ UNCHANGED <<pathVars, validatorVars, list_call, driverVars>>

GetCategoryByName ==
    /\ \E name \in CategoryNames \cup SubcategoryNames : get_category_by_name(name)
    /\ UNCHANGED <<pathVars, validatorVars, list_call, driverVars>>

\* POST /relationships with the type HAS_SUBCATEGORY between any two nodes.
CreateHasSubcategory ==
    /\ \E source_id \in 1..MaxCategoryNodes, target_id \in 1..MaxCategoryNodes :
          handle_create_relationship([type |-> "HAS_SUBCATEGORY", source_id |-> source_id,
                                      target_id |-> target_id, properties |-> EmptyMap])
    /\ UNCHANGED <<pathVars, validatorVars, list_call, driverVars>>

\* The properties a SPATIALLY_RELATES_TO relationship is created with: none, the
\* ones of test_get_spatial_relationships, and (by the loader, which writes no
\* created_at) the ones of the sample data.
SpatialProps ==
    { CreateRelationshipProps(EmptyMap, 0),
      CreateRelationshipProps([confidence_score |-> "1.0", relation_type |-> "near",
                               distance |-> "384400", spatial_unit |-> "kilometers",
                               spatial_dimension |-> "3D"], 0),
      [confidence_score |-> "1.0", creation_timestamp |-> Stamp(0),
       source_information |-> "manual entry", relation_type |-> "orbits",
       distance |-> "384,400", spatial_unit |-> "km", spatial_dimension |-> "3D"] }

\* The relationships of a store the spatial query runs on: SPATIALLY_RELATES_TO
\* with any of these properties or CAUSES, between any two of the sample Concepts.
SpatialEdges ==
    {[source |-> source, target |-> target, type |-> "SPATIALLY_RELATES_TO",
      props |-> props] :
        source \in DOMAIN SampleNames, target \in DOMAIN SampleNames, props \in SpatialProps}
    \cup {CreatedRelationship("CAUSES", source, target) :
             source \in DOMAIN SampleNames, target \in DOMAIN SampleNames}

InitSpatial ==
    /\ constraints = TRUE
    /\ nodes = SeededNodes
    /\ nextNode = Len(SampleNames) + 1
    /\ \E n \in 0..MaxSpatial : rels \in [1..n -> SpatialEdges]
    /\ nextRel = Len(rels) + 1
    /\ clock = 0
    /\ summary = NoDeletion
    /\ resp = Response("none", 0, NoField, "", 0, NoBody)
    /\ path_data = <<>>
    /\ path = NotCalled
    /\ query = EmptyMap
    /\ subject = NoSubject
    /\ verdict = NotValidated
    /\ Serving

GetSpatialRelationships ==
    /\ \E concept_id \in EndpointIds, limit \in SpatialLimits :
          get_spatial_relationships(
              [k \in {"concept_id"} \cup (IF limit = Absent THEN {} ELSE {"limit"}) |->
                  IF k = "concept_id" THEN concept_id ELSE limit])
    /\ UNCHANGED <<path_data, path, subject, verdict, list_call, driverVars>>

\* A new database: nothing stored, no constraint.
InitSetup ==
    /\ InitStore
    /\ nodes = EmptyMap
    /\ ~constraints
    /\ path_data = <<>>
    /\ path = NotCalled
    /\ query = EmptyMap
    /\ subject = NoSubject
    /\ verdict = NotValidated
    /\ Serving

RunSetupScripts ==
    /\ \E include_samples \in BOOLEAN :
          /\ include_samples => Cardinality(Named("Concept", "Heat")) < MaxRuns
          /\ run_setup_scripts(include_samples)
    /\ UNCHANGED <<pathVars, validatorVars, list_call, driverVars>>

ClearDatabase ==
    /\ clear_database
    /\ UNCHANGED <<pathVars, validatorVars, list_call, driverVars>>

GetCausalChain ==
    /\ \E concept_id \in EndpointIds, max_depth \in ChainDepths,
          result_limit \in ChainLimits :
          get_causal_chain(CausalChainQuery(concept_id, max_depth, result_limit))
    /\ UNCHANGED <<path_data, path, subject, verdict, list_call, driverVars>>

\* The validator is about to be called with one of its arguments; the store
\* plays no part.
InitValidator ==
    /\ InitStore
    /\ constraints
    /\ nodes = EmptyMap
    /\ path_data = <<>>
    /\ path = NotCalled
    /\ query = EmptyMap
    /\ subject \in ValidatorSubjects
    /\ verdict = NotValidated
    /\ Serving

\* KantianValidator.validate_concept applied to the dict.
ValidateConcept ==
    /\ verdict = NotValidated
    /\ subject.fn = "validate_concept"
    /\ verdict' = validate_concept(subject.data)
    /\ UNCHANGED <<nodes, rels, nextNode, nextRel, constraints, clock, summary, resp,
                   pathVars, subject, list_call, driverVars>>

\* KantianValidator.validate_relationship applied to the type and the dict.
ValidateRelationship ==
    /\ verdict = NotValidated
    /\ subject.fn = "validate_relationship"
    /\ verdict' = validate_relationship(subject.rel_type, subject.data)
    /\ UNCHANGED <<nodes, rels, nextNode, nextRel, constraints, clock, summary, resp,
                   pathVars, subject, list_call, driverVars>>

Concepts(inputs) == \E concept_in \in inputs : handle_create_concept(concept_in)

UpdatesOfConcepts(ids, inputs) ==
    \E element_id \in ids, concept_update \in inputs :
        update_concept_partial(element_id, concept_update)

Relationships(ids, inputs) ==
    \E type \in RelTypes, source_id \in ids, target_id \in ids, properties \in inputs :
        handle_create_relationship([type |-> type, source_id |-> source_id,
                                    target_id |-> target_id, properties |-> properties])

UpdatesOfRelationships(inputs) ==
    \E element_id \in RequestRelIds, properties \in inputs :
        update_relationship(element_id, properties)

CreateConcept ==
    /\ Concepts(ConceptCreateInputs)
    /\ UNCHANGED <<pathVars, validatorVars, list_call, driverVars>>

UpdateConceptAttributes ==
    /\ UpdatesOfConcepts(RequestNodeIds, AttributeUpdateInputs)
    /\ UNCHANGED <<pathVars, validatorVars, list_call, driverVars>>

GetConcept ==
    /\ \E element_id \in RequestNodeIds : get_concept_by_id(element_id)
    /\ UNCHANGED <<pathVars, validatorVars, list_call, driverVars>>

UpdateConcept ==
    /\ UpdatesOfConcepts(RequestNodeIds, ConceptUpdateInputs)
    /\ UNCHANGED <<pathVars, validatorVars, list_call, driverVars>>

DeleteConcept ==
    /\ \E element_id \in NodeIds : delete_concept(element_id)
    /\ UNCHANGED <<pathVars, validatorVars, list_call, driverVars>>

CreateRelationship ==
    /\ Relationships(EndpointIds, RelPropInputs)
    /\ UNCHANGED <<pathVars, validatorVars, list_call, driverVars>>

GetRelationship ==
    /\ \E element_id \in RequestRelIds : get_relationship_by_id(element_id)
    /\ UNCHANGED <<pathVars, validatorVars, list_call, driverVars>>

UpdateRelationship ==
    /\ UpdatesOfRelationships(RelPropInputs)
    /\ UNCHANGED <<pathVars, validatorVars, list_call, driverVars>>

UpdateRelationshipProperties ==
    /\ UpdatesOfRelationships(PropertyUpdateInputs)
    /\ UNCHANGED <<pathVars, validatorVars, list_call, driverVars>>

DeleteRelationship ==
    /\ \E element_id \in RequestRelIds : delete_relationship(element_id)
    /\ UNCHANGED <<pathVars, validatorVars, list_call, driverVars>>

BasicCreateConcept ==
    /\ Concepts(BasicConceptCreateInputs)
    /\ UNCHANGED <<pathVars, validatorVars, list_call, driverVars>>

BasicUpdateConcept ==
    /\ UpdatesOfConcepts(NodeIds, BasicConceptUpdateInputs)
    /\ UNCHANGED <<pathVars, validatorVars, list_call, driverVars>>

BasicCreateRelationship ==
    /\ Relationships(NodeIds, BasicRelPropInputs)
    /\ UNCHANGED <<pathVars, validatorVars, list_call, driverVars>>

BasicUpdateRelationship ==
    /\ UpdatesOfRelationships(BasicRelPropInputs)
    /\ UNCHANGED <<pathVars, validatorVars, list_call, driverVars>>

\* Time passes between calls.  The specifications below hold the clock still:
\* none of their properties depends on how much time passed between two calls.
Tick ==
    /\ clock < MaxClock
    /\ clock' = clock + 1
    /\ UNCHANGED <<nodes, rels, nextNode, nextRel, constraints, summary, resp>>
    /\ UNCHANGED <<pathVars, validatorVars, list_call, driverVars>>

\* PathResponse.from_neo4j_path applied to the flat sequence.
ReconstructPath ==
    /\ ~path.called
    /\ path' = from_neo4j_path(path_data)
    /\ UNCHANGED <<nodes, rels, nextNode, nextRel, constraints, clock, summary, resp,
                   path_data, query, subject, verdict, list_call, driverVars>>

NextConcept ==
    \/ CreateConcept
    \/ GetConcept
    \/ UpdateConcept
    \/ DeleteConcept

NextRelationship ==
    \/ CreateRelationship
    \/ GetRelationship
    \/ UpdateRelationship
    \/ DeleteRelationship

Next ==
    \/ BasicCreateConcept
    \/ BasicUpdateConcept
    \/ DeleteConcept
    \/ BasicCreateRelationship
    \/ BasicUpdateRelationship
    \/ DeleteRelationship

\* Every writing call of the concept and relationship endpoints, in any order.
Spec == Init /\ [][Next]_vars

\* Calls of the concept endpoints only.
SpecConcept == Init /\ [][NextConcept]_vars

\* Calls of the relationship endpoints only.
SpecRelationship == Init /\ [][NextRelationship]_vars

\* Relationship creates and deletes only.
SpecCreateRelationship == Init /\ [][CreateRelationship \/ DeleteRelationship]_vars

\* Deletes of Concepts and relationships, and the creates that give them
\* relationships to delete.
SpecDelete ==
    Init /\ [][BasicCreateRelationship \/ DeleteConcept \/ DeleteRelationship]_vars

\* Updates of Concepts and relationships that may or may not be there: the
\* updates, the deletes, and the relationship creates.
SpecUpdate ==
    Init /\ [][\/ BasicUpdateConcept
               \/ BasicUpdateRelationship
               \/ BasicCreateRelationship
               \/ DeleteConcept
               \/ DeleteRelationship]_vars

\* Concept updates and gets on a store whose Concepts may have a relationship.
SpecConceptUpdate == InitLinked /\ [][UpdateConceptAttributes \/ GetConcept]_vars

\* Relationship updates and reads on a store with at most one relationship.
SpecRelationshipUpdate ==
    InitLinked /\ [][UpdateRelationshipProperties \/ GetRelationship]_vars

\* Lists, one after the other, of a store that nothing changes.
SpecList == InitListed /\ [][ListRelationships]_vars

\* A list beside relationship creates and deletes of other requests.
SpecListConcurrent ==
    Init /\ [][ListStatement \/ CountStatement \/ BasicCreateRelationship
                   \/ DeleteRelationship]_vars

\* Requests asking get_db for a session, and the application's shutdown.
SpecDriver ==
    InitDriver /\ [][GetAsyncDriver \/ VerifyConnectivity \/ GetDbDone
                         \/ CloseAsyncDriver]_vars

\* The category operations and the relationship operations that write.
SpecCategory ==
    InitCategory /\ [][CreateCategory \/ CreateSubcategory \/ GetCategoryByName
                           \/ CreateHasSubcategory \/ DeleteRelationship]_vars

\* Spatial-relationship queries of a store that nothing changes.
SpecSpatial == InitSpatial /\ [][GetSpatialRelationships]_vars

\* The loader and the clearing of the database, between category creations and
\* relationship deletions of the API.
SpecSetup ==
    InitSetup /\ [][RunSetupScripts \/ ClearDatabase \/ CreateCategory
                        \/ CreateSubcategory \/ DeleteRelationship]_vars

\* Path reconstruction applied to every flat sequence within the bound.
SpecPath == InitPath /\ [][ReconstructPath]_vars

\* Causal-chain traversals of a store that holds up to MaxChain relationships.
SpecChain == InitChain /\ [][GetCausalChain]_vars

\* The validator applied to every argument within the input sets.
SpecValidator == InitValidator /\ [][ValidateConcept \/ ValidateRelationship]_vars

\* ------------------------------------------------------------------- claims
\* C1: whenever update(id, delta) on an existing edge is rejected with
\* ValidationFailed (422), the edge's stored property set after the call is
\* identical to its stored property set before the call.
C1_RejectedUpdateLeavesEdge ==
    [][\A element_id \in RequestRelIds, properties \in RelPropInputs :
          (/\ element_id \in DOMAIN rels
           /\ update_relationship(element_id, properties)
           /\ resp'.status = 422)
          => rels'[element_id].props = rels[element_id].props]_vars

\* An update of a stored edge was answered 422.
C1_UpdateRejected ==
    /\ resp.op = "update_relationship"
    /\ resp.status = 422
    /\ rels # EmptyMap

\* C2: after any sequence of Relationship create, update and delete calls, every
\* stored SPATIALLY_RELATES_TO edge that carries distance also carries a
\* spatial_unit from the allowed set, and every relation_type stored on such an
\* edge is in the allowed spatial-relation set.
C2_SpatialEdgesValid ==
    \A r \in DOMAIN rels :
        rels[r].type = "SPATIALLY_RELATES_TO" =>
            /\ "distance" \in DOMAIN rels[r].props =>
                   /\ "spatial_unit" \in DOMAIN rels[r].props
                   /\ rels[r].props["spatial_unit"] \in ALLOWED_SPATIAL_UNITS
            /\ "relation_type" \in DOMAIN rels[r].props =>
                   rels[r].props["relation_type"] \in ALLOWED_SPATIAL_RELATION_TYPES

\* A SPATIALLY_RELATES_TO edge is stored and an update of it was answered.
C2_SpatialEdgeUpdated ==
    /\ resp.op = "update_relationship"
    /\ resp.status \in {200, 422}
    /\ \E r \in DOMAIN rels : rels[r].type = "SPATIALLY_RELATES_TO"

\* C3: every Concept create, update or delete call and every Relationship create
\* or delete call is all-or-nothing: a call that reports a failure leaves the
\* store exactly as it was, and a call that reports success has its whole write
\* in the store.
C3_AllOrNothing ==
    [][LET failed == resp'.status \notin {200, 201, 204}
       IN  /\ (/\ resp'.op \in {"create_concept", "update_concept", "delete_concept",
                               "create_relationship", "delete_relationship"}
               /\ failed)
              => (nodes' = nodes /\ rels' = rels)
           /\ (resp'.op = "create_concept" /\ ~failed /\ nodes' # nodes)
              => /\ resp'.body.elementId \in DOMAIN nodes' \ DOMAIN nodes
                 /\ resp'.body = ConceptBody(resp'.body.elementId,
                                             nodes'[resp'.body.elementId].props)
           /\ (resp'.op = "update_concept" /\ ~failed)
              => resp'.body = ConceptBody(resp'.body.elementId,
                                          nodes'[resp'.body.elementId].props)
           /\ (resp'.op = "create_relationship" /\ ~failed /\ rels' # rels)
              => /\ resp'.body.elementId \in DOMAIN rels' \ DOMAIN rels
                 /\ rels'[resp'.body.elementId].source = resp'.body.source_id
                 /\ rels'[resp'.body.elementId].target = resp'.body.target_id
                 /\ rels'[resp'.body.elementId].type = resp'.body.type
           /\ \A element_id \in NodeIds :
                  delete_concept(element_id)
                  => (element_id \notin DOMAIN nodes' /\ Incident(element_id)' = {})
           /\ \A element_id \in RequestRelIds :
                  delete_relationship(element_id) => element_id \notin DOMAIN rels'
      ]_vars

\* A Concept create reported a failure.
C3_CreateFailed ==
    /\ resp.op = "create_concept"
    /\ resp.status \notin {200, 201, 204}

\* C4: in every reachable state both endpoints of every stored Relationship are
\* existing nodes: an edge is created only between existing nodes, and deleting
\* a Concept removes every relationship incident to it in the same step.
C4_EndpointsExist ==
    \A r \in DOMAIN rels :
        rels[r].source \in DOMAIN nodes /\ rels[r].target \in DOMAIN nodes

\* A Concept with relationships on it was deleted.
C4_DetachedOnDelete ==
    /\ resp.op = "delete_concept"
    /\ summary.nodes_deleted = 1
    /\ summary.relationships_deleted > 0

\* C5: after any sequence of Concept create and partial-update calls, the stored
\* quality of every Concept is absent or one of Reality, Negation, Limitation,
\* and its stored modality is absent or one of the three allowed modalities.
C5_StoredCategoriesAllowed ==
    \A n \in DOMAIN nodes :
        /\ "quality" \in DOMAIN nodes[n].props =>
               nodes[n].props["quality"] \in ALLOWED_QUALITIES
        /\ "modality" \in DOMAIN nodes[n].props =>
               nodes[n].props["modality"] \in ALLOWED_MODALITIES

\* A partial update changed only the quality of a Concept that keeps its stored
\* modality: the delta was validated, the merged record was stored.
C5_DeltaMerged ==
    /\ resp.op = "update_concept"
    /\ resp.status = 200
    /\ Get(nodes[resp.body.elementId].props, "quality") = "Limitation"
    /\ "modality" \in DOMAIN nodes[resp.body.elementId].props

\* C6: when the by-identity lookup of Relationship get(id) yields more than one
\* record, the call fails with InternalInconsistency (a 500) and never answers
\* with the first record.
C6_SeveralRecordsIsInconsistency ==
    [][\A element_id \in RequestRelIds :
          (/\ Cardinality(UndirectedRows(element_id)) > 1
           /\ get_relationship_by_id(element_id))
          => resp'.status = 500]_vars

\* A get was answered from a lookup that yielded two records.
C6_AnsweredFromSeveral ==
    /\ resp.op = "get_relationship"
    /\ resp.status = 200
    /\ Cardinality(UndirectedRows(resp.body.elementId)) > 1

\* C7: a get(id) that directly follows the create of that Relationship returns
\* the same identity and type, the source and target given at creation in that
\* direction, and the same properties.
C7_CreateThenGet ==
    [][\A element_id \in RequestRelIds :
          (/\ resp.op = "create_relationship"
           /\ resp.status = 201
           /\ resp.body.elementId = element_id
           /\ get_relationship_by_id(element_id))
          => /\ resp'.status = 200
             /\ resp'.body.elementId = resp.body.elementId
             /\ resp'.body.type = resp.body.type
             /\ resp'.body.source_id = resp.body.source_id
             /\ resp'.body.target_id = resp.body.target_id
             /\ resp'.body.props = resp.body.props]_vars

\* A get answered for an edge between two different nodes.
C7_GotDirectedEdge ==
    /\ resp.op = "get_relationship"
    /\ resp.status = 200
    /\ resp.body.source_id # resp.body.target_id

\* C8: for every valid attribute map, Concept create succeeds and assigns a
\* non-null id and created_at, and a get that directly follows returns the
\* attributes given (omitted ones at their defaults: stability 'ephemeral',
\* confidence 0.5) with the same id and created_at.
C8_CreateThenGet ==
    [][/\ \A concept_in \in ConceptCreateInputs :
             (validate_concept(concept_in) = Accept /\ handle_create_concept(concept_in))
             => /\ resp'.status = 201
                /\ resp'.body.props["id"] # NULL
                /\ resp'.body.props["created_at"] # NULL
                /\ \A k \in DOMAIN ConceptCreateDefaults :
                       resp'.body.props[k] = DumpAll(concept_in, ConceptCreateDefaults)[k]
       /\ (/\ resp.op = "create_concept"
           /\ resp.status = 201
           /\ get_concept_by_id(resp.body.elementId))
          => (resp'.status = 200 /\ resp'.body = resp.body)]_vars

\* A Concept create with valid attributes was answered.
C8_ValidCreateAnswered ==
    /\ resp.op = "create_concept"
    /\ resp.status # 422

\* C9 as stated: a Relationship create whose source_id or target_id resolves to
\* no node fails with NotFound (404) whose detail names the missing endpoint (the
\* source when the source is missing, otherwise the target) and creates no edge.
C9_MissingEndpointNotFound ==
    [][resp'.op = "create_relationship" =>
       \A type \in RelTypes, source_id \in EndpointIds, target_id \in EndpointIds,
          properties \in RelPropInputs :
          (/\ source_id \notin DOMAIN nodes \/ target_id \notin DOMAIN nodes
           /\ handle_create_relationship(
                  [type |-> type, source_id |-> source_id, target_id |-> target_id,
                   properties |-> properties]))
          => /\ resp'.status = 404
             /\ resp'.missing = (IF source_id \notin DOMAIN nodes THEN source_id
                                 ELSE target_id)
             /\ rels' = rels]_vars

\* C9: a Relationship create whose properties pass validate_relationship and
\* whose source_id or target_id resolves to no node fails with NotFound (404)
\* whose detail names the missing endpoint (the source when the source is
\* missing, otherwise the target) and creates no edge; a create whose properties
\* fail validation is rejected with 422 before the endpoints are resolved, and
\* creates no edge either.
C9_ValidMissingEndpointNotFound ==
    [][resp'.op = "create_relationship" =>
       \A type \in RelTypes, source_id \in EndpointIds, target_id \in EndpointIds,
          properties \in RelPropInputs :
          (/\ source_id \notin DOMAIN nodes \/ target_id \notin DOMAIN nodes
           /\ handle_create_relationship(
                  [type |-> type, source_id |-> source_id, target_id |-> target_id,
                   properties |-> properties]))
          => /\ rels' = rels
             /\ IF validate_relationship(type, properties) = Accept
                THEN /\ resp'.status = 404
                     /\ resp'.missing = (IF source_id \notin DOMAIN nodes THEN source_id
                                         ELSE target_id)
                ELSE resp'.status = 422]_vars

\* In a store that holds Concepts, a create was answered NotFound naming an id
\* that resolves to no node, and no edge is stored.
C9_MissingNamed ==
    /\ resp.op = "create_relationship"
    /\ resp.status = 404
    /\ nodes # EmptyMap
    /\ resp.missing \in EndpointIds \ DOMAIN nodes
    /\ rels = EmptyMap

\* C10: given a malformed flat sequence (even length, or elements that do not
\* alternate node, relationship type, node), from_neo4j_path emits no path at
\* all: no nodes and no edges.
C10_MalformedEmitsNothing ==
    LET WellFormed ==
            /\ Len(path_data) % 2 = 1
            /\ \A i \in DOMAIN path_data :
                   IF i % 2 = 1 THEN IsDict(path_data[i]) ELSE IsStr(path_data[i])
    IN  (path.called /\ ~WellFormed)
        => (path.nodes = <<>> /\ path.relationships = <<>>)

\* A sequence with a dangling relationship type was reconstructed.
C10_MalformedReconstructed ==
    /\ path.called
    /\ Len(path_data) = 4
    /\ IsDict(path_data[1]) /\ IsStr(path_data[2])
    /\ IsDict(path_data[3]) /\ IsStr(path_data[4])

\* C11: for every well-formed alternating sequence [n0, t1, n1, ..., tk, nk] of
\* nodes that carry an identity, from_neo4j_path returns as nodes the distinct
\* nodes of the sequence, each once by identity, and exactly k edges in
\* traversal order, edge i with start n(i-1), end n(i) and type t(i).
C11_WellFormedReconstructed ==
    LET WellFormed ==
            /\ Len(path_data) % 2 = 1
            /\ \A i \in DOMAIN path_data :
                   IF i % 2 = 1
                   THEN IsDict(path_data[i]) /\ "elementId" \in DOMAIN path_data[i].dict
                   ELSE IsStr(path_data[i])
        k == (Len(path_data) - 1) \div 2
        seqNodes == {path_data[2 * i - 1].dict : i \in 1..(k + 1)}
    IN  (path.called /\ WellFormed)
        => /\ {path.nodes[j] : j \in DOMAIN path.nodes} = seqNodes
           /\ \A i, j \in DOMAIN path.nodes :
                  path.nodes[i].elementId = path.nodes[j].elementId => i = j
           /\ Len(path.relationships) = k
           /\ \A i \in 1..k :
                  path.relationships[i] =
                      [start_node_id |-> path_data[2 * i - 1].dict.elementId,
                       end_node_id |-> path_data[2 * i + 1].dict.elementId,
                       type |-> path_data[2 * i].str]

\* A well-formed sequence of two hops that returns to its first node was
\* reconstructed.
C11_CycleReconstructed ==
    /\ path.called
    /\ Len(path_data) = 5
    /\ IsDict(path_data[1]) /\ IsStr(path_data[2]) /\ IsDict(path_data[3])
    /\ IsStr(path_data[4]) /\ path_data[5] = path_data[1]
    /\ "elementId" \in DOMAIN path_data[1].dict
    /\ "elementId" \in DOMAIN path_data[3].dict
    /\ Len(path.relationships) = 2

\* C12: every Path returned by the causal-chain traversal lists each visited
\* Concept at most once in its nodes, also when the CAUSES graph has a cycle
\* that leads back to a visited Concept, and lists its edges in traversal order.
C12_PathNodesDistinct ==
    (resp.op = "get_causal_chain" /\ resp.status = 200) =>
        \A p \in DOMAIN resp.body :
            LET returned == resp.body[p]
            IN  /\ \A i, j \in DOMAIN returned.nodes :
                       returned.nodes[i].elementId = returned.nodes[j].elementId => i = j
                /\ returned.relationships[1].start_node_id = query.concept_id
                /\ \A i \in 1..(Len(returned.relationships) - 1) :
                       returned.relationships[i].end_node_id =
                           returned.relationships[i + 1].start_node_id

\* A traversal returned a path of two hops that ends at the Concept it started
\* from.
C12_CycleReturned ==
    /\ resp.op = "get_causal_chain"
    /\ resp.status = 200
    /\ \E p \in DOMAIN resp.body :
          /\ Len(resp.body[p].relationships) = 2
          /\ resp.body[p].relationships[2].end_node_id = query.concept_id

\* C13: when the matching paths do not exceed result_limit, a causal-chain
\* traversal from Concept X with max_depth D returns exactly one Path for each
\* directed path of outgoing CAUSES edges that starts at X and has between 1 and
\* D hops, and nothing else; a start that does not exist or has no outgoing
\* CAUSES edge yields the empty list, not an error.
C13_ExactlyTheDirectedPaths ==
    LET X == query.concept_id
        D == MaxDepthOf(query)
        hops == 1..(IF D < Cardinality(DOMAIN rels) THEN D ELSE Cardinality(DOMAIN rels))
        directed ==
            {p \in UNION {[1..n -> DOMAIN rels] : n \in hops} :
                /\ \A i, j \in DOMAIN p : p[i] = p[j] => i = j
                /\ \A i \in DOMAIN p : rels[p[i]].type = "CAUSES"
                /\ rels[p[1]].source = X
                /\ \A i \in 1..(Len(p) - 1) : rels[p[i]].target = rels[p[i + 1]].source}
    IN  (/\ resp.op = "get_causal_chain"
         /\ QueryViolation(query) = Accept
         /\ Cardinality(directed) <= ResultLimitOf(query))
        => /\ resp.status = 200
           /\ DOMAIN resp.body = directed
           /\ \A p \in directed :
                  /\ Len(resp.body[p].relationships) = Len(p)
                  /\ Len(resp.body[p].nodes) = Len(p) + 1
                  /\ resp.body[p].nodes[1].elementId = X
                  /\ \A i \in DOMAIN p :
                         /\ resp.body[p].relationships[i].type = "CAUSES"
                         /\ resp.body[p].relationships[i].start_node_id = rels[p[i]].source
                         /\ resp.body[p].relationships[i].end_node_id = rels[p[i]].target
                         /\ resp.body[p].nodes[i + 1].elementId = rels[p[i]].target

\* A traversal with max_depth = 1 from a Concept with one outgoing CAUSES edge
\* to another Concept was answered.
C13_OneHopTraversed ==
    /\ resp.op = "get_causal_chain"
    /\ resp.status = 200
    /\ "max_depth" \in DOMAIN query /\ query.max_depth = 1
    /\ Cardinality({r \in DOMAIN rels :
                       rels[r].type = "CAUSES" /\ rels[r].source = query.concept_id}) = 1
    /\ \E r \in DOMAIN rels :
          /\ rels[r].type = "CAUSES"
          /\ rels[r].source = query.concept_id
          /\ rels[r].target # query.concept_id

\* C14: every causal-chain traversal runs with a depth bound and a result cap:
\* max_depth is an integer in 1..5 (default 3) and result_limit in 1..50
\* (default 10), a request outside these ranges is rejected before any query,
\* the response holds at most result_limit paths, and every returned path has
\* at least 1 and at most max_depth edges.
C14_DepthAndResultCap ==
    LET max_depth == IF "max_depth" \in DOMAIN query THEN query.max_depth ELSE 3
        result_limit == IF "result_limit" \in DOMAIN query THEN query.result_limit ELSE 10
    IN  resp.op = "get_causal_chain" =>
            IF max_depth \in 1..5 /\ result_limit \in 1..50
            THEN /\ resp.status = 200
                 /\ Cardinality(DOMAIN resp.body) <= result_limit
                 /\ \A p \in DOMAIN resp.body :
                        /\ Len(resp.body[p].relationships) >= 1
                        /\ Len(resp.body[p].relationships) <= max_depth
            ELSE resp.status = 422 /\ resp.body = NoBody

\* A traversal with max_depth = 1 and result_limit = 1 was answered on a store
\* where the start has a path of two hops and more than one outgoing CAUSES
\* edge.
C14_CapsCut ==
    /\ resp.op = "get_causal_chain"
    /\ resp.status = 200
    /\ "max_depth" \in DOMAIN query /\ query.max_depth = 1
    /\ "result_limit" \in DOMAIN query /\ query.result_limit = 1
    /\ Cardinality(CausalChainMatches(query.concept_id, 1)) > 1
    /\ CausalChainMatches(query.concept_id, 2) # CausalChainMatches(query.concept_id, 1)
    /\ Cardinality(DOMAIN resp.body) = 1

\* C15: every validation rejection reported to the caller by Concept create,
\* Concept update, Relationship create and Relationship update is a single
\* field-tagged ValidationFailed: its one error entry identifies the offending
\* field (quality, modality, spatial_unit or relation_type), the field the
\* validator rejected.
C15_RejectionFieldTagged ==
    (/\ resp.status = 422
     /\ resp.op \in {"create_concept", "update_concept", "create_relationship",
                     "update_relationship"})
    => /\ resp.field \in {"quality", "modality", "spatial_unit", "relation_type"}
       /\ resp.msg = Message(resp.field)

\* A Concept create or update was rejected by the validator.
C15_ConceptRejected ==
    /\ resp.status = 422
    /\ resp.op \in {"create_concept", "update_concept"}
    /\ resp.msg = Message("quality")

\* C16: validate_concept rejects with field quality every attribute map whose
\* quality has a value not in {Reality, Negation, Limitation}, whatever its
\* modality; otherwise rejects with field modality every map whose modality has
\* a value that is not an allowed modality; and accepts every other map,
\* including the maps without a quality or a modality.
C16_ConceptVerdict ==
    LET attrs == subject.data
        Present(k) == k \in DOMAIN attrs /\ attrs[k] # NULL
    IN  (subject.fn = "validate_concept" /\ verdict # NotValidated) =>
            IF Present("quality") /\ attrs["quality"] \notin {"Reality", "Negation", "Limitation"}
            THEN verdict = "quality"
            ELSE IF Present("modality") /\ attrs["modality"] \notin ALLOWED_MODALITIES
            THEN verdict = "modality"
            ELSE verdict = Accept

\* A map with an allowed quality and a modality outside the allowed set was
\* validated.
C16_ModalityValidated ==
    /\ subject.fn = "validate_concept"
    /\ verdict # NotValidated
    /\ "quality" \in DOMAIN subject.data /\ subject.data["quality"] = "Negation"
    /\ "modality" \in DOMAIN subject.data /\ subject.data["modality"] = "Maybe"

\* C17: for type SPATIALLY_RELATES_TO, validate_relationship rejects with field
\* spatial_unit every property map in which distance is present and
\* spatial_unit is absent, and every property map in which spatial_unit is
\* present but not in the allowed unit set (such as distance = 10,
\* spatial_unit = furlongs), regardless of the other properties.
C17_SpatialUnitRejected ==
    LET properties == subject.data
        Given(k) == k \in DOMAIN properties
        Present(k) == Given(k) /\ properties[k] # NULL
    IN  (/\ subject.fn = "validate_relationship"
         /\ subject.rel_type = "SPATIALLY_RELATES_TO"
         /\ verdict # NotValidated
         /\ \/ Given("distance") /\ ~Present("spatial_unit")
            \/ /\ Given("spatial_unit")
               /\ properties["spatial_unit"] \notin ALLOWED_SPATIAL_UNITS)
        => verdict = "spatial_unit"

\* distance = 10 with spatial_unit = furlongs and a relation_type outside the
\* allowed set was validated for SPATIALLY_RELATES_TO.
C17_FurlongsValidated ==
    /\ subject.fn = "validate_relationship"
    /\ subject.rel_type = "SPATIALLY_RELATES_TO"
    /\ verdict # NotValidated
    /\ Get(subject.data, "distance") = "10"
    /\ Get(subject.data, "spatial_unit") = "furlongs"
    /\ Get(subject.data, "relation_type") = "nearby"

\* C18: for type SPATIALLY_RELATES_TO, validate_relationship rejects with field
\* relation_type every property map that satisfies the spatial_unit rules but
\* whose relation_type is present and not in the allowed spatial-relation set,
\* and accepts every property map that satisfies both the spatial_unit rules
\* and the relation_type rule.
C18_RelationTypeVerdict ==
    LET properties == subject.data
        Present(k) == k \in DOMAIN properties /\ properties[k] # NULL
        UnitRules ==
            /\ Present("distance") => Present("spatial_unit")
            /\ Present("spatial_unit") => properties["spatial_unit"] \in ALLOWED_SPATIAL_UNITS
        RelationTypeRule ==
            Present("relation_type") =>
                properties["relation_type"] \in ALLOWED_SPATIAL_RELATION_TYPES
    IN  (/\ subject.fn = "validate_relationship"
         /\ subject.rel_type = "SPATIALLY_RELATES_TO"
         /\ verdict # NotValidated
         /\ UnitRules)
        => verdict = (IF RelationTypeRule THEN Accept ELSE "relation_type")

\* A map with distance, an allowed spatial_unit and a relation_type outside the
\* allowed set was validated for SPATIALLY_RELATES_TO.
C18_RelationTypeValidated ==
    /\ subject.fn = "validate_relationship"
    /\ subject.rel_type = "SPATIALLY_RELATES_TO"
    /\ verdict # NotValidated
    /\ Get(subject.data, "distance") = "10"
    /\ Get(subject.data, "spatial_unit") = "meters"
    /\ Get(subject.data, "relation_type") = "nearby"

\* C19: validate_relationship accepts every property map for every relationship
\* type other than SPATIALLY_RELATES_TO, recognized or unknown: no spatial rule
\* is applied to an edge of another type.
C19_OtherTypesAccepted ==
    (/\ subject.fn = "validate_relationship"
     /\ subject.rel_type # "SPATIALLY_RELATES_TO"
     /\ verdict # NotValidated)
    => verdict = Accept

\* A map with distance, a spatial_unit outside the allowed set and a
\* relation_type outside the allowed set was validated for type CAUSES.
C19_CausesValidated ==
    /\ subject.fn = "validate_relationship"
    /\ subject.rel_type = "CAUSES"
    /\ verdict # NotValidated
    /\ Get(subject.data, "distance") = "10"
    /\ Get(subject.data, "spatial_unit") = "furlongs"
    /\ Get(subject.data, "relation_type") = "nearby"

\* C20: delete(id) is idempotent for Concepts and for Relationships: called on
\* an identity that does not exist, or a second time on an identity already
\* deleted, it reports the same no-error outcome as a first call (204, no body)
\* and leaves the store unchanged.
C20_DeleteIdempotent ==
    [][/\ \A element_id \in NodeIds :
            delete_concept(element_id) =>
                /\ resp'.status = 204 /\ resp'.body = NoBody
                /\ element_id \notin DOMAIN nodes => (nodes' = nodes /\ rels' = rels)
                /\ element_id \notin DOMAIN nodes'
       /\ \A element_id \in RequestRelIds :
            delete_relationship(element_id) =>
                /\ resp'.status = 204 /\ resp'.body = NoBody
                /\ element_id \notin DOMAIN rels => (nodes' = nodes /\ rels' = rels)
                /\ element_id \notin DOMAIN rels']_vars

\* A relationship was created and is gone, and a delete of it found nothing to
\* delete.
C20_DeletedAgain ==
    /\ resp.op = "delete_relationship"
    /\ resp.status = 204
    /\ nextRel > 1
    /\ rels = EmptyMap
    /\ summary = NoDeletion

\* C21: an update on an identity that does not exist, a Concept update with a
\* valid delta or a Relationship update with a non-empty delta, reports
\* NotFound (404) and creates or modifies nothing in the store.
C21_UpdateMissingNotFound ==
    [][/\ \A element_id \in NodeIds, concept_update \in BasicConceptUpdateInputs :
            (/\ element_id \notin DOMAIN nodes
             /\ concept_update # EmptyMap
             /\ Get(concept_update, "quality") \in ALLOWED_QUALITIES \cup {NULL}
             /\ Get(concept_update, "modality") \in ALLOWED_MODALITIES \cup {NULL}
             /\ update_concept_partial(element_id, concept_update))
            => (resp'.status = 404 /\ nodes' = nodes /\ rels' = rels)
       /\ \A element_id \in RequestRelIds, properties \in BasicRelPropInputs :
            (/\ element_id \notin DOMAIN rels
             /\ properties # EmptyMap
             /\ update_relationship(element_id, properties))
            => (resp'.status = 404 /\ nodes' = nodes /\ rels' = rels)]_vars

\* In a store that holds Concepts, an update of a Concept that is not there was
\* answered NotFound.
C21_MissingConceptUpdated ==
    /\ resp.op = "update_concept"
    /\ resp.status = 404
    /\ nodes # EmptyMap
    /\ resp.missing \notin DOMAIN nodes

\* C22: a successful Concept partial update changes exactly the attributes named
\* in the delta plus updated_at: every attribute not in the delta (name and
\* created_at included), the Concept's identity and all relationships are
\* unchanged, and a get that follows returns the merged record.
C22_UpdateChangesDeltaOnly ==
    [][/\ \A element_id \in RequestNodeIds, concept_update \in AttributeUpdateInputs :
            (update_concept_partial(element_id, concept_update) /\ resp'.status = 200)
            => LET old == nodes[element_id].props
                   new == nodes'[element_id].props
                   named == {DbKey(k) : k \in DOMAIN concept_update} \cup {"updated_at"}
               IN  /\ DOMAIN nodes' = DOMAIN nodes
                   /\ \A n \in DOMAIN nodes \ {element_id} : nodes'[n] = nodes[n]
                   /\ nodes'[element_id].label = nodes[element_id].label
                   /\ \A k \in (DOMAIN old \cup DOMAIN new) \ named :
                          k \in DOMAIN old /\ k \in DOMAIN new /\ new[k] = old[k]
                   /\ \A k \in DOMAIN concept_update :
                          Get(new, DbKey(k)) = concept_update[k]
                   /\ rels' = rels
                   /\ resp'.body.elementId = element_id
                   /\ \A k \in ConceptOutKeys :
                          resp'.body.props[k] =
                              (IF k \in DOMAIN concept_update THEN concept_update[k]
                               ELSE Get(old, DbKey(k)))
       /\ (/\ resp.op = "update_concept"
           /\ resp.status = 200
           /\ get_concept_by_id(resp.body.elementId))
          => (resp'.status = 200 /\ resp'.body = resp.body)]_vars

\* A Concept with a relationship on it was updated successfully, to a quality
\* it did not have.
C22_ConceptUpdated ==
    /\ resp.op = "update_concept"
    /\ resp.status = 200
    /\ resp.body.props["quality"] = "Limitation"
    /\ Incident(resp.body.elementId) # {}

C24_PagesOfTheOrderedMatches ==
    [][/\ (resp'.op = "list_relationships" /\ resp'.status = 200)
            => LET matches == ListMatches(rels, TypeOf(query'))
                   skip == SkipOf(query')
                   limit == LimitOf(query')
                   ids == [i \in 1..Len(resp'.body.relationships) |->
                              resp'.body.relationships[i].elementId]
                   rank(r) == CreatedRank(rels[r].props)
                   positions == IF Cardinality(matches) > skip
                                THEN Min(limit, Cardinality(matches) - skip) ELSE 0
               IN  /\ Len(ids) = positions
                   /\ Len(ids) <= limit
                   /\ \A i \in 1..Len(ids) : ids[i] \in matches
                   /\ \A i, j \in 1..Len(ids) :
                         i < j => (ids[i] # ids[j] /\ rank(ids[i]) >= rank(ids[j]))
                   /\ \A i \in 1..Len(ids) :
                         /\ Cardinality({r \in matches : rank(r) > rank(ids[i])})
                               <= skip + i - 1
                         /\ Cardinality({r \in matches : rank(r) >= rank(ids[i])})
                               >= skip + i
                   /\ resp'.body.total_count = Cardinality(matches)
       /\ (/\ resp.op = "list_relationships" /\ resp.status = 200
           /\ resp'.op = "list_relationships" /\ resp'.status = 200
           /\ TypeOf(query) = TypeOf(query')
           /\ rels' = rels
           /\ \/ SkipOf(query) + LimitOf(query) <= SkipOf(query')
              \/ SkipOf(query') + LimitOf(query') <= SkipOf(query))
            => \A i \in DOMAIN resp.body.relationships,
                  j \in DOMAIN resp'.body.relationships :
                   resp.body.relationships[i].elementId
                       # resp'.body.relationships[j].elementId]_vars

\* The second of three matching relationships was asked for and returned.
C24_SecondPageListed ==
    /\ resp.op = "list_relationships"
    /\ resp.status = 200
    /\ SkipOf(query) = 1
    /\ LimitOf(query) = 1
    /\ Len(resp.body.relationships) = 1
    /\ resp.body.total_count >= 3

\* C25 as stated: a list with type filter T returns only relationships whose
\* type is exactly T, and total_count is the number of relationships of type T.
C25_OnlyTypeT ==
    (resp.op = "list_relationships" /\ resp.status = 200 /\ "type" \in DOMAIN query)
    => /\ \A i \in DOMAIN resp.body.relationships :
              resp.body.relationships[i].type = query.type
       /\ resp.body.total_count =
              Cardinality({r \in DOMAIN rels : rels[r].type = query.type})

\* C25 amended: a list with a non-empty type filter T returns only
\* relationships whose type equals T up to the case of its letters, and
\* total_count is the number of relationships with such a type.
C25_OnlyTypeTUpToCase ==
    (/\ resp.op = "list_relationships" /\ resp.status = 200
     /\ "type" \in DOMAIN query /\ query.type # "")
    => /\ \A i \in DOMAIN resp.body.relationships :
              toUpper(resp.body.relationships[i].type) = toUpper(query.type)
       /\ resp.body.total_count =
              Cardinality({r \in DOMAIN rels : toUpper(rels[r].type) = toUpper(query.type)})

\* A list filtered by CAUSES returned a relationship of type causes while the
\* store holds a relationship of another type.
C25_FilteredListed ==
    /\ resp.op = "list_relationships"
    /\ resp.status = 200
    /\ TypeOf(query) = "CAUSES"
    /\ \E i \in DOMAIN resp.body.relationships : resp.body.relationships[i].type = "causes"
    /\ \E r \in DOMAIN rels : rels[r].type = "PRECEDES"

\* C26: a list that runs beside relationship creates and deletes answers with a
\* page and a total_count read from one store state: whenever the page is not
\* empty, total_count is at least skip plus the number of relationships in the
\* page.
C26_PageAndCountAgree ==
    (/\ resp.op = "list_relationships" /\ resp.status = 200
     /\ Len(resp.body.relationships) > 0)
    => resp.body.total_count >= SkipOf(query) + Len(resp.body.relationships)

\* A list answered with a relationship that is in the store no more.
C26_ListedBesideDelete ==
    /\ resp.op = "list_relationships"
    /\ resp.status = 200
    /\ Len(resp.body.relationships) > 0
    /\ \E i \in DOMAIN resp.body.relationships :
          resp.body.relationships[i].elementId \notin DOMAIN rels

\* C30: every driver a get_async_driver call returns (and get_db opens its
\* session on) is one whose verify_connectivity() has succeeded.
C30_OnlyVerifiedHandedOut ==
    \A p \in Callers : calls[p].pc = "returned" => calls[p].got \in verified

\* A call's verify_connectivity() failed and the call raised, leaving the
\* global bound to the driver that was never verified.
C30_VerificationFailed ==
    \E p \in Callers :
        /\ calls[p].pc = "raised"
        /\ driver = calls[p].instance
        /\ driver \notin verified

\* C27: every Subcategory has exactly one Category at the source of its
\* HAS_SUBCATEGORY relationships.
C27_SubcategoryHasOneParent ==
    \A n \in DOMAIN nodes :
        nodes[n].label = "Subcategory"
        => Cardinality({p \in Parents(n) : nodes[p].label = "Category"}) = 1

\* create_subcategory has just stored a Subcategory under its parent.
C27_SubcategoryCreated ==
    /\ resp.op = "create_subcategory"
    /\ resp.status = 201
    /\ nodes[resp.body.elementId].label = "Subcategory"
    /\ Parents(resp.body.elementId) # {}

\* C29: the spatial-relationships query for Concept X answers with one entry
\* for every SPATIALLY_RELATES_TO relationship at X, up to limit: each entry is
\* such a relationship, is reported outgoing when X is its source and incoming
\* when X is its target, with the other endpoint as related_concept_id; and as
\* many entries come back as there are such relationships, or limit.
C29_EveryIncidentEdgeReported ==
    (resp.op = "get_spatial_relationships" /\ resp.status = 200)
    => LET X == query.concept_id
           incident == {r \in DOMAIN rels : /\ rels[r].type = "SPATIALLY_RELATES_TO"
                                            /\ X \in {rels[r].source, rels[r].target}}
       IN  /\ \A r \in DOMAIN resp.body :
                 /\ r \in incident
                 /\ resp.body[r].elementId = r
                 /\ \/ /\ rels[r].source = X
                       /\ resp.body[r].direction = "outgoing"
                       /\ resp.body[r].related_concept_id = rels[r].target
                    \/ /\ rels[r].target = X
                       /\ resp.body[r].direction = "incoming"
                       /\ resp.body[r].related_concept_id = rels[r].source
           /\ Cardinality(DOMAIN resp.body)
                 = Min(SpatialLimitOf(query), Cardinality(incident))

\* The query was answered for a Concept that has a relationship coming in and
\* another going out, and the answer has an outgoing entry.
C29_BothDirectionsAsked ==
    /\ resp.op = "get_spatial_relationships"
    /\ resp.status = 200
    /\ \E r \in DOMAIN resp.body : resp.body[r].direction = "outgoing"
    /\ \E r \in DOMAIN rels :
          /\ rels[r].type = "SPATIALLY_RELATES_TO"
          /\ rels[r].target = query.concept_id
          /\ rels[r].source # query.concept_id

\* C28: a run of the loader that follows a completed run of the loader with the
\* same choice of sample data leaves the constraints, the nodes and the
\* relationships as that run left them.
C28_SecondRunIsNoOp ==
    [][\A include_samples \in BOOLEAN :
          (/\ resp.op = "run_setup_scripts"
           /\ resp.msg = "completed"
           /\ resp.body.include_samples = include_samples
           /\ run_setup_scripts(include_samples))
          => (nodes' = nodes /\ rels' = rels /\ constraints' = constraints)]_vars

\* The loader has run a second time with the sample data: a Concept of the
\* sample data is there twice.
C28_LoaderRunAgain ==
    /\ resp.op = "run_setup_scripts"
    /\ resp.msg = "completed"
    /\ resp.body.include_samples
    /\ Cardinality(Named("Concept", "Heat")) = 2

====
